---- MODULE Spec2Model ----
(***************************************************************************)
(* Firestarter host driver: the serial session (serial_comm.py), the       *)
(* operation facade (eprom_operations.py) and the hardware manager         *)
(* (hardware.py), as one sequential host process running against a         *)
(* nondeterministic device and serial transport.                           *)
(*                                                                         *)
(* eprom_operations.py names the communicator's OK/ERROR wait expect_ok    *)
(* and passes find_and_connect and read_data_block the arguments of an     *)
(* earlier signature; the model binds these calls to the communicator      *)
(* methods serial_comm.py defines (expect_ack, find_and_connect,           *)
(* read_data_block).                                                       *)
(***************************************************************************)
EXTENDS Integers, Sequences, FiniteSets, TLC

\* ------------------------------------------------------------------ bounds
\* Serial ports of the machine are numbered 1..NPorts.
NPorts == 2
\* Operations one behaviour runs, one after the other.
MaxOps == 2
\* Largest length prefix the device announces for one data block.
MaxBlock == 2
\* Largest requested read range, in bytes.
MaxTotal == 2
\* Largest input file of write/verify, in chunks of buffer_size bytes.
MaxChunks == 2
\* Acknowledgements counted on one connection; the count saturates here.
AckCap == 4

\* --------------------------------------------------------------- constants
COMMAND_READ == 1
COMMAND_WRITE == 2
COMMAND_ERASE == 3
COMMAND_BLANK_CHECK == 4
COMMAND_CHECK_CHIP_ID == 5
COMMAND_VERIFY == 6
COMMAND_DEV_ADDRESS == 7
COMMAND_DEV_REGISTERS == 8
COMMAND_READ_VPP == 11
COMMAND_READ_VPE == 12
COMMAND_FW_VERSION == 13
COMMAND_CONFIG == 14
COMMAND_HW_VERSION == 15
FLAG_FORCE == 1
FLAG_CAN_ERASE == 2
FLAG_VERBOSE == 128
BUFFER_SIZE == 512
LEONARDO_BUFFER_SIZE == 1024

\* ------------------------------------------------------------ byte helpers
\* Payload bytes of the model: a set closed under XOR.
ByteVals == 0..1

RECURSIVE XorInt(_, _)
\* operator.xor on two non-negative integers, bit by bit.
XorInt(a, b) ==
    IF a = 0 THEN b
    ELSE IF b = 0 THEN a
    ELSE (((a % 2) + (b % 2)) % 2) + 2 * XorInt(a \div 2, b \div 2)

RECURSIVE XorFold(_)
\* functools.reduce(operator.xor, data, 0)
XorFold(data) ==
    IF data = <<>> THEN 0 ELSE XorInt(XorFold(Tail(data)), Head(data))

RECURSIVE FromBytesBig(_)
\* int.from_bytes(b, "big"); the empty byte string gives 0.
FromBytesBig(b) ==
    IF b = <<>> THEN 0
    ELSE FromBytesBig(SubSeq(b, 1, Len(b) - 1)) * 256 + b[Len(b)]

\* --------------------------------------------------- text and version gate
\* A message is a sequence of atoms: single characters, and the words
\* "FW:" and "leonardo" kept whole.
Digits == {"0", "1", "2", "9"}
VerChars == Digits \cup {".", "x"}

DigitVal(c) ==
    CASE c = "0" -> 0 [] c = "1" -> 1 [] c = "2" -> 2 [] c = "9" -> 9

\* str.lower() on the characters of the model
Lower(s) == [i \in 1..Len(s) |-> IF s[i] = "X" THEN "x" ELSE s[i]]

RECURSIVE ReplaceX(_)
\* str.replace('x', '999')
ReplaceX(s) ==
    IF s = <<>> THEN <<>>
    ELSE IF Head(s) = "x" THEN <<"9", "9", "9">> \o ReplaceX(Tail(s))
    ELSE <<Head(s)>> \o ReplaceX(Tail(s))

RECURSIVE SplitDots(_, _)
\* str.split('.'): cur is the part being collected.
SplitDots(s, cur) ==
    IF s = <<>> THEN <<cur>>
    ELSE IF Head(s) = "." THEN <<cur>> \o SplitDots(Tail(s), <<>>)
    ELSE SplitDots(Tail(s), Append(cur, Head(s)))

RECURSIVE IntOf(_)
\* int(part) of a non-empty string of decimal digits.
IntOf(part) ==
    IF part = <<>> THEN 0
    ELSE IntOf(SubSeq(part, 1, Len(part) - 1)) * 10 + DigitVal(part[Len(part)])

\* int(part) raises ValueError on the empty string and on a non-digit.
IntFails(part) == part = <<>> \/ \E i \in 1..Len(part) : part[i] \notin Digits

\* int(part) raising ValueError for some part of the split string.
ParseFails(s) ==
    LET parts == SplitDots(ReplaceX(Lower(s)), <<>>)
    IN  \E i \in 1..Len(parts) : IntFails(parts[i])

\* tuple(map(int, s.lower().replace('x','999').split('.'))) when no part fails.
VersionTuple(s) ==
    LET parts == SplitDots(ReplaceX(Lower(s)), <<>>)
    IN  [i \in 1..Len(parts) |-> IntOf(parts[i])]

RECURSIVE TupleGE(_, _)
\* Python's a >= b on tuples of integers: lexicographic, a proper prefix is less.
TupleGE(a, b) ==
    IF b = <<>> THEN TRUE
    ELSE IF a = <<>> THEN FALSE
    ELSE IF Head(a) # Head(b) THEN Head(a) > Head(b)
    ELSE TupleGE(Tail(a), Tail(b))

\* SerialCommunicator._is_version_sufficient
IsVersionSufficient(current, required) ==
    IF current = <<>> \/ required = <<>> THEN FALSE
    ELSE IF ParseFails(current) \/ ParseFails(required) THEN FALSE
    ELSE TupleGE(VersionTuple(current), VersionTuple(required))

\* The minimum firmware version _probe_port asks for, "2.0.0".
RequiredVersion == <<"2", ".", "0", ".", "0">>

\* "FW:" in msg
HasFW(msg) == \E i \in 1..Len(msg) : msg[i] = "FW:"

RECURSIVE SkipSpaces(_, _)
\* The index after the run of spaces that starts at i.
SkipSpaces(msg, i) ==
    IF i <= Len(msg) /\ msg[i] = " " THEN SkipSpaces(msg, i + 1) ELSE i

RECURSIVE VerRun(_, _)
\* The longest run of [\d.x] characters of msg that starts at i.
VerRun(msg, i) ==
    IF i <= Len(msg) /\ msg[i] \in VerChars
    THEN <<msg[i]>> \o VerRun(msg, i + 1)
    ELSE <<>>

\* re.search(r"FW:\s*([\d.x]+)", msg): group 1 of the leftmost match, <<>> for no match.
FwToken(msg) ==
    LET hits == {i \in 1..Len(msg) :
                    msg[i] = "FW:" /\ VerRun(msg, SkipSpaces(msg, i + 1)) # <<>>}
    IN  IF hits = {} THEN <<>>
        ELSE LET i == CHOOSE j \in hits : \A k \in hits : j <= k
             IN  VerRun(msg, SkipSpaces(msg, i + 1))

\* ------------------------------------------------------------------ inputs
\* Messages the device may attach to the OK that answers the command.
HandshakeMsgs ==
    { <<"FW:", " ", "2", ".", "0", ".", "1">>,
      <<"FW:", " ", "2", ".", "0", ".", "x", ",", " ", "leonardo">>,
      <<"FW:", " ", "1", ".", "9", ".", "9">>,
      <<"FW:", "2", ".", "0">>,
      <<"FW:", " ", "2", ".", ".", "0">>,
      <<"FW:", " ", "?">>,
      <<"h", "w">>,
      <<>> }

\* The message of an ERROR line, and of every other line of the model.
ErrMsg == <<"e">>
NoMsg == <<>>

\* Event kinds get_response returns (EXPECTED_PREFIXES minus NON_RESPONSE_PREFIXES).
Significant == {"OK", "ERROR", "WARN", "DATA", "INIT", "MAIN", "END"}

\* What one get_response call ends with: a significant event, the wait's
\* timeout, or a transport error of read_line_bytes.
WaitOutcomes == Significant \cup {"SerialTimeoutError", "SerialError"}

\* What one send_bytes call ends with.
SendOutcomes == {"ok", "SerialError", "SerialTimeoutError"}

\* SerialTimeoutError and FirmwareOutdatedError are subclasses of SerialError.
IsSerialError(e) == e \in {"SerialError", "SerialTimeoutError", "FirmwareOutdatedError"}

\* comports(): devices in enumeration order, each with the outcome of the
\* manufacturer/description keyword test.
SysPortLists ==
    LET Entry == [dev : 1..NPorts, match : BOOLEAN]
    IN  UNION {{s \in [1..n -> Entry] :
                  \A i, j \in 1..n : i # j => s[i].dev # s[j].dev} : n \in 0..NPorts}

RECURSIVE AppendMatching(_, _)
\* the loop of _list_potential_ports over system_ports
AppendMatching(ports, sys) ==
    IF sys = <<>> THEN ports
    ELSE LET p == Head(sys)
             known == \E i \in 1..Len(ports) : ports[i] = p.dev
         IN  AppendMatching(IF ~known /\ p.match THEN Append(ports, p.dev) ELSE ports,
                            Tail(sys))

\* SerialCommunicator._list_potential_ports; port 0 stands for no preferred port.
ListPotentialPorts(preferred, sys) ==
    AppendMatching(IF preferred # 0 THEN <<preferred>> ELSE <<>>, sys)

\* Operations of the facade (EpromOperator) and of the managers.
FacadeOps == {"read", "dev_read", "write", "verify", "erase", "blank", "id",
              "dev_regs", "dev_addr"}
HardwareOps == {"hw_config_set", "hw_rev", "hw_config_get", "voltage"}
FirmwareOps == {"fw_check"}
Ops == FacadeOps \cup HardwareOps \cup FirmwareOps

\* The operation code each operation puts in its command.
CommandOf(o) ==
    CASE o \in {"read", "dev_read"} -> COMMAND_READ
      [] o = "write" -> COMMAND_WRITE
      [] o = "verify" -> COMMAND_VERIFY
      [] o = "erase" -> COMMAND_ERASE
      [] o = "blank" -> COMMAND_BLANK_CHECK
      [] o = "id" -> COMMAND_CHECK_CHIP_ID
      [] o = "dev_addr" -> COMMAND_DEV_ADDRESS
      [] o = "dev_regs" -> COMMAND_DEV_REGISTERS
      [] o \in {"hw_config_set", "hw_config_get"} -> COMMAND_CONFIG
      [] o = "hw_rev" -> COMMAND_HW_VERSION
      [] o = "voltage" -> COMMAND_READ_VPP
      [] o = "fw_check" -> COMMAND_FW_VERSION

\* ------------------------------------------------------------------- state
VARIABLES
    pc,          \* where the host is
    op,          \* the operation being run, "none" before the first one
    force,       \* FLAG_FORCE is set in the command's flags
    exc,         \* the exception in flight, "none" if there is none
    held,        \* the exception an except or finally clause holds
    ret,         \* where disconnect() returns to
    result,      \* what the operation gave its caller: "True", "False", "raise"
    opsLeft,     \* operations still to run
    preferred,   \* the preferred_port argument of find_and_connect, 0 for None
    cands,       \* potential_ports of find_and_connect
    ci,          \* index of the candidate being probed
    cfgPort,     \* the configuration value "port", 0 if unset
    scan,        \* the matching devices comports() listed, in its order
    probed,      \* the ports _probe_port was called with in this discovery
    conn,        \* communicator.connection: the open port, 0 for None
    probeComm,   \* _probe_port's local communicator is set
    operComm,    \* EpromOperator.comm is set
    localComm,   \* the manager's local comm is set
    info,        \* communicator.programmer_info, NoInfo if unset
    leaked,      \* a serial connection was dropped without close() and is not yet finalized
    closeCalls,  \* close() calls since the last port was opened
    ack,         \* (is_ok, msg) of the last expect_ack
    hsEvent,     \* what the last get_response of the handshake wait ended with
    acks,        \* send_ack calls on this connection, up to AckCap
    cmdSent,     \* the JSON command was sent on this connection
    errSeen,     \* get_response returned an ERROR event on this connection
    sentAfterErr,\* something was sent on this connection after that
    phase,       \* how far INIT, MAIN, END were received in order: 0..3
    failure,     \* the last failure on this connection
    portOpened,  \* the probe in progress opened its port
    session,     \* find_and_connect returned a communicator to this operation
    total,       \* bytes the read is to deliver
    bytesRead,   \* bytes_read_total
    written,     \* payload bytes handed to the file or the hexdump
    blk,         \* the last read_data_block call: its input and its result
    chunksLeft,  \* non-empty chunks left in the input file
    xfer,        \* the file transfer in progress: the file, what was sent and received
    call,        \* the function a unit run applies, with its arguments
    out,         \* what that function gave
    wait         \* a get_response call run on its own: where it is, its clock

ctl == <<pc, op, force, exc, held, ret, result, opsLeft>>
findVars == <<preferred, cands, ci, cfgPort, scan, probed>>
connVars == <<conn, probeComm, operComm, localComm, info, leaked, closeCalls>>
protoVars == <<ack, hsEvent, acks, cmdSent, errSeen, sentAfterErr, phase, failure,
               portOpened, session>>
dataVars == <<total, bytesRead, written, blk, chunksLeft, xfer>>
progVars == <<ctl, findVars, connVars, protoVars, dataVars>>
auxVars == <<call, out, wait>>
vars == <<progVars, auxVars>>

NoBlock == [read |-> FALSE, len |-> <<>>, cks |-> <<>>, data |-> <<>>,
            out |-> [raise |-> "none", data |-> <<>>]]
\* programmer_info = None
NoInfo == <<"None">>
NoEvent == [kind |-> "none", msg |-> NoMsg, late |-> FALSE, origin |-> "none"]
\* No transfer is in progress: no file is being sent, no block was received.
NoXfer == [size |-> 0, buf |-> 0, sent |-> 0, term |-> 0, oks |-> 0,
           dev |-> "none", mainAfterTerm |-> FALSE, blocks |-> 0,
           ev |-> "none"]
\* No function is being applied on its own.
NoCall == [fn |-> "none"]
NoOut == [done |-> FALSE]
\* No get_response call is run on its own.
NoWait == [pc |-> "none"]

\* Nothing is running: no operation, no communicator, no connection.
Idle ==
    /\ pc = "idle" /\ op = "none" /\ force = FALSE
    /\ exc = "none" /\ held = "none" /\ ret = "none" /\ result = "none"
    /\ opsLeft = MaxOps
    /\ preferred = 0 /\ cands = <<>> /\ ci = 0 /\ scan = <<>> /\ probed = <<>>
    /\ conn = 0 /\ probeComm = FALSE /\ operComm = FALSE /\ localComm = FALSE
    /\ info = NoInfo /\ leaked = FALSE /\ closeCalls = 0
    /\ ack = <<FALSE, NoMsg>> /\ hsEvent = NoEvent /\ acks = 0 /\ cmdSent = FALSE
    /\ errSeen = FALSE /\ sentAfterErr = FALSE /\ phase = 0
    /\ failure = "none" /\ portOpened = FALSE /\ session = FALSE
    /\ total = 0 /\ bytesRead = 0 /\ written = 0 /\ blk = NoBlock
    /\ chunksLeft = 0 /\ xfer = NoXfer

Init ==
    /\ Idle
    /\ cfgPort \in 0..NPorts
    /\ call = NoCall /\ out = NoOut /\ wait = NoWait

\* ----------------------------------------------------- bookkeeping of waits
\* The message a line of kind w carries.
MsgsOf(w) ==
    IF w = "OK" THEN HandshakeMsgs ELSE IF w = "ERROR" THEN {ErrMsg} ELSE {NoMsg}

\* STATE_MACHINE_PREFIXES in protocol order: the phase after event w.
PhaseAfter(p, w) ==
    IF (p = 0 /\ w = "INIT") \/ (p = 1 /\ w = "MAIN") \/ (p = 2 /\ w = "END")
    THEN p + 1 ELSE p

\* The failure a wait's outcome stands for.
FailureAfter(f, w) ==
    CASE w = "ERROR" -> "device"
      [] w = "SerialTimeoutError" -> "timeout"
      [] w = "SerialError" -> "transport"
      [] OTHER -> f

\* What every get_response leaves behind, whatever the caller does with it.
Received(w) ==
    /\ errSeen' = (errSeen \/ w = "ERROR")
    /\ phase' = PhaseAfter(phase, w)
    /\ failure' = FailureAfter(failure, w)

\* What every send_bytes leaves behind; o is its outcome.
Sent(o) ==
    /\ sentAfterErr' = (sentAfterErr \/ errSeen)
    /\ failure' = IF o = "ok" THEN failure ELSE "transport"

\* send_ack: send_string("OK")
AcksAfter(n) == IF n < AckCap THEN n + 1 ELSE n

\* A mutant of expect_ack: an ERROR line is skipped like a WARN line.
ExpectAckSkipsError(w, m) ==
    CASE w = "OK" -> [done |-> TRUE, raise |-> "none", ok |-> TRUE, msg |-> m]
      [] w \in {"SerialTimeoutError", "SerialError"} ->
            [done |-> TRUE, raise |-> w, ok |-> FALSE, msg |-> NoMsg]
      [] OTHER -> [done |-> FALSE, raise |-> "none", ok |-> FALSE, msg |-> NoMsg]

\* A mutant of expect_ack: an ERROR line is taken for the acknowledgement.
ExpectAckErrorIsOk(w, m) ==
    CASE w \in {"OK", "ERROR"} -> [done |-> TRUE, raise |-> "none", ok |-> TRUE, msg |-> m]
      [] w \in {"SerialTimeoutError", "SerialError"} ->
            [done |-> TRUE, raise |-> w, ok |-> FALSE, msg |-> NoMsg]
      [] OTHER -> [done |-> FALSE, raise |-> "none", ok |-> FALSE, msg |-> NoMsg]

\* SerialCommunicator.expect_ack, one round of its loop: w is what get_response
\* ends with and m the message of the line.
ExpectAck(w, m) ==
    CASE w = "OK" -> [done |-> TRUE, raise |-> "none", ok |-> TRUE, msg |-> m]
      [] w = "ERROR" -> [done |-> TRUE, raise |-> "none", ok |-> FALSE, msg |-> m]
      [] w \in {"SerialTimeoutError", "SerialError"} ->
            [done |-> TRUE, raise |-> w, ok |-> FALSE, msg |-> NoMsg]
      [] OTHER -> [done |-> FALSE, raise |-> "none", ok |-> FALSE, msg |-> NoMsg]

\* exempt_cmds of _probe_port
ExemptCmds == {COMMAND_FW_VERSION}

\* A mutant of the version gate: the version is never looked at.
VersionGateOpen(code, msg) == TRUE

\* The firmware version check of _probe_port: TRUE when the probe goes on to
\* return the communicator, FALSE when it raises FirmwareOutdatedError.
VersionGate(code, msg) ==
    \/ code \in ExemptCmds
    \/ /\ msg # <<>>
       /\ HasFW(msg)
       /\ FwToken(msg) # <<>>
       /\ IsVersionSufficient(FwToken(msg), RequiredVersion)

\* --------------------------------------------------- SerialCommunicator
\* find_and_connect up to its loop: the preferred port, the candidate list.
FindStart ==
    /\ pc = "find"
    /\ \E sys \in SysPortLists :
         LET pref == IF preferred # 0 THEN preferred ELSE cfgPort
             ports == ListPotentialPorts(pref, sys)
         IN  /\ cands' = ports
             /\ scan' = AppendMatching(<<>>, sys)
             /\ probed' = <<>>
             /\ IF ports = <<>>
                THEN exc' = "ProgrammerNotFoundError" /\ pc' = "find_ret" /\ ci' = 0
                ELSE exc' = "none" /\ pc' = "probe_open" /\ ci' = 1
    /\ UNCHANGED <<op, force, held, ret, result, opsLeft, preferred, cfgPort,
                   connVars, protoVars, dataVars>>
    /\ UNCHANGED auxVars

\* _probe_port: SerialCommunicator(port=...), the constructor opening the port.
ProbeOpen ==
    /\ pc = "probe_open"
    /\ \E opens \in BOOLEAN :
         IF opens
         THEN /\ conn' = cands[ci] /\ probeComm' = TRUE /\ closeCalls' = 0
              /\ portOpened' = TRUE /\ failure' = "none"
              /\ exc' = "none" /\ pc' = "probe_drain"
         ELSE /\ conn' = conn /\ probeComm' = FALSE /\ closeCalls' = closeCalls
              /\ portOpened' = FALSE /\ failure' = "transport"
              /\ exc' = "SerialError" /\ pc' = "probe_handler"
    /\ info' = NoInfo /\ hsEvent' = NoEvent /\ acks' = 0 /\ cmdSent' = FALSE
    /\ errSeen' = FALSE /\ sentAfterErr' = FALSE /\ phase' = 0
    /\ probed' = Append(probed, cands[ci])
    /\ UNCHANGED <<op, force, held, ret, result, opsLeft, preferred, cands, ci,
                   cfgPort, scan, operComm, localComm, leaked, ack, session,
                   dataVars>>
    /\ UNCHANGED auxVars

\* _probe_port: communicator.consume_remaining_input(), which reads what is
\* buffered; late tells whether the device sends a line after the drain's last
\* read, which the port buffers before the command goes out.
ProbeDrain ==
    /\ pc = "probe_drain"
    /\ \E drained \in BOOLEAN, late \in BOOLEAN :
         IF drained
         THEN /\ pc' = "probe_send" /\ UNCHANGED <<exc, failure>>
              /\ hsEvent' = [hsEvent EXCEPT !.late = late]
         ELSE /\ pc' = "probe_handler" /\ exc' = "SerialError"
              /\ failure' = "transport" /\ ~late /\ hsEvent' = hsEvent
    /\ UNCHANGED <<op, force, held, ret, result, opsLeft, findVars, connVars, ack,
                   acks, cmdSent, errSeen, sentAfterErr, phase, portOpened,
                   session, dataVars>>
    /\ UNCHANGED auxVars

\* _probe_port: communicator.send_json_command(command_to_send)
ProbeSend ==
    /\ pc = "probe_send"
    /\ \E o \in SendOutcomes :
         /\ Sent(o)
         /\ IF o = "ok"
            THEN pc' = "probe_ack" /\ exc' = exc
            ELSE pc' = "probe_handler" /\ exc' = o
    /\ cmdSent' = TRUE
    /\ UNCHANGED <<op, force, held, ret, result, opsLeft, findVars, connVars, ack,
                   hsEvent, acks, errSeen, phase, portOpened, session, dataVars>>
    /\ UNCHANGED auxVars

\* _probe_port: is_ok, msg = communicator.expect_ack(). The lines are read in
\* the order the port received them: an event comes from the line buffered
\* before the command went out, if there is one and it is significant, or from
\* a line sent after it.
ProbeAck ==
    /\ pc = "probe_ack"
    /\ \E w \in WaitOutcomes : \E m \in MsgsOf(w) :
       \E origin \in {"reply", "stale"} :
         LET r == ExpectAck(w, m)
         IN  /\ errSeen' = (errSeen \/ w = "ERROR")
             /\ failure' = FailureAfter(failure, w)
             /\ origin = "stale" => (hsEvent.late /\ w \in Significant)
             /\ IF ~r.done
                THEN /\ UNCHANGED <<pc, exc, ack>>
                     /\ hsEvent' = [hsEvent EXCEPT !.late = FALSE]
                ELSE /\ hsEvent' = [kind |-> w, msg |-> m, late |-> FALSE,
                                    origin |-> origin]
                     /\ IF r.raise # "none"
                        THEN pc' = "probe_handler" /\ exc' = r.raise /\ ack' = ack
                        ELSE pc' = "probe_gate" /\ exc' = exc
                             /\ ack' = <<r.ok, r.msg>>
    /\ UNCHANGED <<op, force, held, ret, result, opsLeft, findVars, connVars, acks,
                   cmdSent, sentAfterErr, phase, portOpened, session, dataVars>>
    /\ UNCHANGED auxVars

\* A mutant of set_value: the value is not stored.
SetValueNotStored(config, value) == config

\* ConfigManager.set_value for the key "port": config is the value held, 0
\* when the key is unset; None (0) removes the key. A failure to write the file
\* is logged and leaves the value set.
SetValue(config, value) == IF value = 0 THEN 0 ELSE value

\* _probe_port after the wait: the version gate, storing the identity and the
\* port on success; disconnect() and None when the reply was an ERROR.
ProbeGate ==
    /\ pc = "probe_gate"
    /\ IF ack[1]
       THEN IF VersionGate(CommandOf(op), ack[2])
            THEN /\ info' = ack[2] /\ cfgPort' = SetValue(cfgPort, cands[ci])
                 /\ pc' = "find_ret" /\ UNCHANGED <<exc, ret>>
            ELSE /\ exc' = "FirmwareOutdatedError" /\ pc' = "probe_handler"
                 /\ UNCHANGED <<info, cfgPort, ret>>
       ELSE /\ pc' = "disc" /\ ret' = "probe_else"
            /\ UNCHANGED <<info, cfgPort, exc>>
    /\ hsEvent' = [hsEvent EXCEPT !.origin = "none"]
    /\ UNCHANGED <<op, force, held, result, opsLeft, preferred, cands, ci, scan,
                   probed, conn, probeComm, operComm, localComm, leaked, closeCalls,
                   ack, acks, cmdSent, errSeen, sentAfterErr, phase, failure,
                   portOpened, session, dataVars>>
    /\ UNCHANGED auxVars

\* A mutant of disconnect: without the finally clause, an error of the drain
\* leaves the fields as they were.
DisconnectNoFinally ==
    /\ pc = "disc"
    /\ IF conn = 0
       THEN UNCHANGED <<conn, info, leaked, closeCalls, exc, failure>>
       ELSE \E drained \in BOOLEAN :
              IF drained
              THEN /\ conn' = 0 /\ info' = NoInfo /\ closeCalls' = closeCalls + 1
                   /\ UNCHANGED <<leaked, exc, failure>>
              ELSE /\ exc' = "SerialError" /\ failure' = "transport"
                   /\ UNCHANGED <<conn, info, leaked, closeCalls>>
    /\ pc' = ret
    /\ UNCHANGED <<op, force, held, ret, result, opsLeft, findVars, probeComm,
                   operComm, localComm, ack, hsEvent, acks, cmdSent, errSeen,
                   sentAfterErr, phase, portOpened, session, dataVars>>
    /\ UNCHANGED auxVars

\* SerialCommunicator.disconnect: nothing when not connected; else drain, close
\* (a SerialException of close() is logged), and clear the fields in any case.
\* A SerialError of the drain skips close() and leaves disconnect with the fields
\* cleared.
Disconnect ==
    /\ pc = "disc"
    /\ IF conn = 0
       THEN UNCHANGED <<conn, info, leaked, closeCalls, exc, failure>>
       ELSE \E drained \in BOOLEAN :
              /\ conn' = 0 /\ info' = NoInfo
              /\ IF drained
                 THEN closeCalls' = closeCalls + 1 /\ UNCHANGED <<leaked, exc, failure>>
                 ELSE /\ leaked' = TRUE /\ exc' = "SerialError"
                      /\ failure' = "transport" /\ closeCalls' = closeCalls
    /\ pc' = ret
    /\ UNCHANGED <<op, force, held, ret, result, opsLeft, findVars, probeComm,
                   operComm, localComm, ack, hsEvent, acks, cmdSent, errSeen,
                   sentAfterErr, phase, portOpened, session, dataVars>>
    /\ UNCHANGED auxVars

\* The finalizer of a dropped serial.Serial object closes it at some later time.
Finalize ==
    /\ leaked
    /\ leaked' = FALSE
    /\ UNCHANGED <<ctl, findVars, conn, probeComm, operComm, localComm, info,
                   closeCalls, protoVars, dataVars>>
    /\ UNCHANGED auxVars

\* _probe_port after the disconnect() of its else branch: return None, or the
\* except clause when that disconnect() raised.
ProbeElse ==
    /\ pc = "probe_else"
    /\ pc' = IF exc # "none" THEN "probe_handler" ELSE "probe_next"
    /\ UNCHANGED <<op, force, exc, held, ret, result, opsLeft, findVars, connVars,
                   protoVars, dataVars>>
    /\ UNCHANGED auxVars

\* _probe_port: except (SerialError, FirmwareOutdatedError) as e, disconnecting
\* the communicator if there is one.
ProbeHandler ==
    /\ pc = "probe_handler"
    /\ held' = exc /\ exc' = "none"
    /\ IF probeComm
       THEN pc' = "disc" /\ ret' = "probe_handled"
       ELSE pc' = "probe_handled" /\ ret' = ret
    /\ UNCHANGED <<op, force, result, opsLeft, findVars, connVars, protoVars,
                   dataVars>>
    /\ UNCHANGED auxVars

\* _probe_port: the end of the except clause. An exception of its disconnect()
\* leaves the probe and find_and_connect; FirmwareOutdatedError is re-raised,
\* and find_and_connect re-raises it; anything else returns None.
ProbeHandled ==
    /\ pc = "probe_handled"
    /\ IF exc # "none"
       THEN pc' = "find_ret" /\ exc' = exc
       ELSE IF held = "FirmwareOutdatedError"
       THEN pc' = "find_ret" /\ exc' = "FirmwareOutdatedError"
       ELSE pc' = "probe_next" /\ exc' = exc
    /\ held' = "none"
    /\ UNCHANGED <<op, force, ret, result, opsLeft, findVars, connVars, protoVars,
                   dataVars>>
    /\ UNCHANGED auxVars

\* A mutant of find_and_connect: the next attempt sends the command again on
\* the connection at hand instead of opening the next candidate.
ProbeNextResends ==
    /\ pc = "probe_next"
    /\ IF ci < Len(cands)
       THEN ci' = ci /\ pc' = "probe_send" /\ exc' = exc
       ELSE ci' = ci /\ pc' = "find_ret" /\ exc' = "ProgrammerNotFoundError"
    /\ probeComm' = FALSE
    /\ UNCHANGED <<op, force, held, ret, result, opsLeft, preferred, cands, cfgPort,
                   scan, probed, conn, operComm, localComm, info, leaked, closeCalls,
                   protoVars, dataVars>>
    /\ UNCHANGED auxVars

\* find_and_connect: the next candidate, or ProgrammerNotFoundError after the last.
ProbeNext ==
    /\ pc = "probe_next"
    /\ IF ci < Len(cands)
       THEN ci' = ci + 1 /\ pc' = "probe_open" /\ exc' = exc
       ELSE ci' = ci /\ pc' = "find_ret" /\ exc' = "ProgrammerNotFoundError"
    /\ probeComm' = FALSE
    /\ UNCHANGED <<op, force, held, ret, result, opsLeft, preferred, cands, cfgPort,
                   scan, probed, conn, operComm, localComm, info, leaked, closeCalls,
                   protoVars, dataVars>>
    /\ UNCHANGED auxVars

\* ------------------------------------------------------------- operations
\* What the statements of an operation's body leave alone.
bodyFrame == <<op, force, exc, ret, opsLeft, findVars, connVars, ack, hsEvent,
               cmdSent, portOpened, session, total>>
noSend == <<acks, sentAfterErr>>
noRecv == <<errSeen, phase>>
noData == <<bytesRead, written, blk, chunksLeft, xfer>>

\* A caller invokes one operation; the inputs are the operation's arguments.
StartOp ==
    /\ pc = "idle" /\ opsLeft > 0
    /\ \E o \in Ops, f \in BOOLEAN, t \in 0..MaxTotal, p \in 0..NPorts :
         /\ (o # "id" => ~f)
         /\ (o \notin {"read", "dev_read"} => t = 0)
         /\ (o # "fw_check" => p = 0)
         /\ op' = o /\ force' = f /\ total' = t /\ preferred' = p
    /\ opsLeft' = opsLeft - 1
    /\ pc' = "find"
    /\ UNCHANGED <<exc, held, ret, result, cands, ci, cfgPort, scan, probed,
                   connVars, protoVars, bytesRead, written, blk, chunksLeft, xfer>>
    /\ UNCHANGED auxVars

\* EpromOperator._setup_operation (and the same lines of dev_set_registers):
\* keep the communicator find_and_connect returned; on ProgrammerNotFoundError
\* or SerialError, _disconnect_programmer() and failure.
SetupReturn ==
    /\ pc = "find_ret" /\ op \in FacadeOps
    /\ IF exc = "none"
       THEN /\ operComm' = TRUE /\ session' = TRUE /\ result' = result
            /\ pc' = CASE op = "read" -> "read_range"
                       [] op \in {"write", "verify"} -> "file_check"
                       [] op = "dev_addr" -> "wait_ok"
                       [] OTHER -> "body_ack"
       ELSE /\ operComm' = FALSE /\ session' = session /\ result' = "False"
            /\ pc' = "done"
    /\ exc' = "none"
    /\ preferred' = 0 /\ cands' = <<>> /\ ci' = 0 /\ probeComm' = FALSE
    /\ scan' = <<>> /\ probed' = <<>>
    /\ ack' = <<FALSE, NoMsg>>
    /\ UNCHANGED <<op, force, held, ret, opsLeft, cfgPort, conn, localComm, info,
                   leaked, closeCalls, hsEvent, acks, cmdSent, errSeen, sentAfterErr,
                   phase, failure, portOpened, dataVars>>
    /\ UNCHANGED auxVars

\* read_eprom: total_bytes_to_read <= 0 is an invalid range.
ReadRange ==
    /\ pc = "read_range"
    /\ IF total <= 0
       THEN pc' = "fin" /\ result' = "False"
       ELSE pc' = "body_ack" /\ result' = result
    /\ UNCHANGED <<bodyFrame, held, noSend, noRecv, failure, noData>>
    /\ UNCHANGED auxVars

\* self.comm.send_ack(), the first statement of the try block of
\* _perform_simple_command, check_eprom_id, dev_set_registers, read_eprom and
\* dev_read_eprom.
BodyAck ==
    /\ pc = "body_ack"
    /\ \E o \in SendOutcomes :
         /\ Sent(o)
         /\ IF o = "ok"
            THEN /\ result' = result
                 /\ pc' = CASE op \in {"read", "dev_read"} -> "read_loop"
                            [] op = "dev_regs" -> "regs_send"
                            [] OTHER -> "wait_ok"
            ELSE pc' = "fin" /\ result' = "False"
    /\ acks' = AcksAfter(acks)
    /\ UNCHANGED <<bodyFrame, held, noRecv, noData>>
    /\ UNCHANGED auxVars

\* dev_set_registers: send_bytes of the four register bytes.
RegsSend ==
    /\ pc = "regs_send"
    /\ \E o \in SendOutcomes :
         /\ Sent(o)
         /\ IF o = "ok"
            THEN pc' = "wait_ok" /\ result' = result
            ELSE pc' = "fin" /\ result' = "False"
    /\ UNCHANGED <<bodyFrame, held, acks, noRecv, noData>>
    /\ UNCHANGED auxVars

\* check_eprom_id's result: bool(flags & FLAG_FORCE) when the reply is not OK.
IdResult(isOk, f) == IF isOk \/ f THEN "True" ELSE "False"

\* is_ok, msg = self.comm.expect_ok() and the return that follows it in
\* _perform_simple_command, check_eprom_id, dev_set_registers and
\* dev_set_address_mode.
WaitOk ==
    /\ pc = "wait_ok"
    /\ \E w \in WaitOutcomes :
         LET r == ExpectAck(w, NoMsg)
         IN  /\ Received(w)
             /\ IF ~r.done THEN UNCHANGED <<pc, result>>
                ELSE /\ pc' = "fin"
                     /\ result' = IF r.raise # "none" THEN "False"
                                  ELSE IF op = "id" THEN IdResult(r.ok, force)
                                  ELSE IF r.ok THEN "True" ELSE "False"
    /\ UNCHANGED <<bodyFrame, held, noSend, noData>>
    /\ UNCHANGED auxVars

\* The read loop of read_eprom and dev_read_eprom: the loop condition, then
\* get_response and the branch on the event's kind.
ReadLoop ==
    /\ pc = "read_loop"
    /\ IF bytesRead >= total
       THEN pc' = "fin" /\ result' = "True" /\ UNCHANGED <<noRecv, failure, xfer>>
       ELSE \E w \in WaitOutcomes :
              /\ Received(w)
              /\ xfer' = [xfer EXCEPT !.ev = w]
              /\ IF w = "DATA" THEN pc' = "read_block" /\ result' = result
                 ELSE /\ pc' = "fin"
                      /\ result' = IF w = "OK" THEN "True" ELSE "False"
    /\ UNCHANGED <<bodyFrame, held, noSend, bytesRead, written, blk, chunksLeft>>
    /\ UNCHANGED auxVars

\* The bytes connection.read(2) may give for the length prefix.
LenPrefixes ==
    {<<>>} \cup {<<b>> : b \in 0..MaxBlock} \cup {<<0, b>> : b \in 0..MaxBlock}

\* The bytes connection.read(1) may give for the checksum.
CksBytes == {<<>>} \cup {<<c>> : c \in ByteVals}

\* The payload bytes the read loop may collect when n were announced: all n, or
\* fewer when a read timed out.
Payloads(n) == UNION {[1..k -> ByteVals] : k \in 0..n}

\* A mutant of read_data_block: the checksum is not compared.
ReadDataBlockUnchecked(lenB, cksB, data) ==
    IF cksB = <<>> THEN [raise |-> "IndexError", data |-> <<>>]
    ELSE [raise |-> "none", data |-> data]

\* SerialCommunicator.read_data_block on what the three reads gave: the length
\* prefix, the checksum byte and the payload collected. checksum_rcvd[0] is an
\* IndexError when the checksum read gave nothing; a short payload is logged.
ReadDataBlock(lenB, cksB, data) ==
    IF cksB = <<>> THEN [raise |-> "IndexError", data |-> <<>>]
    ELSE IF cksB[1] # XorFold(data) THEN [raise |-> "SerialError", data |-> <<>>]
    ELSE [raise |-> "none", data |-> data]

\* read_eprom / dev_read_eprom on a DATA event: read_data_block, the empty-block
\* break, file_handle.write (hexdump in dev_read_eprom).
ReadBlock ==
    /\ pc = "read_block"
    /\ \/ \E lenB \in LenPrefixes, cksB \in CksBytes :
            \E data \in Payloads(FromBytesBig(lenB)) :
              LET r == ReadDataBlock(lenB, cksB, data)
              IN  /\ blk' = [read |-> TRUE, len |-> lenB, cks |-> cksB, data |-> data,
                             out |-> r]
                  /\ CASE r.raise = "IndexError" ->
                            /\ held' = "IndexError" /\ result' = result
                            /\ failure' = "timeout" /\ pc' = "fin"
                            /\ written' = written
                       [] r.raise = "SerialError" ->
                            /\ held' = held /\ result' = "False"
                            /\ failure' = "checksum" /\ pc' = "fin"
                            /\ written' = written
                       [] OTHER ->
                            /\ held' = held /\ failure' = failure
                            /\ IF r.data = <<>>
                               THEN pc' = "fin" /\ result' = "True"
                                    /\ written' = written
                               ELSE pc' = "read_ack" /\ result' = result
                                    /\ written' = written + Len(r.data)
       \/ /\ blk' = [read |-> TRUE, len |-> <<>>, cks |-> <<>>, data |-> <<>>,
                     out |-> [raise |-> "SerialError", data |-> <<>>]]
          /\ held' = held /\ result' = "False" /\ failure' = "transport"
          /\ pc' = "fin" /\ written' = written
    /\ xfer' = [xfer EXCEPT !.blocks = IF written' # written THEN @ + 1 ELSE @]
    /\ UNCHANGED <<bodyFrame, noSend, noRecv, bytesRead, chunksLeft>>
    /\ UNCHANGED auxVars

\* A mutant of the read loop's count: the chunk's bytes are counted twice.
ReadAckCountsTwice ==
    /\ pc = "read_ack"
    /\ \E o \in SendOutcomes :
         /\ Sent(o)
         /\ IF o = "ok"
            THEN /\ pc' = "read_loop" /\ result' = result
                 /\ bytesRead' = bytesRead + 2 * Len(blk.out.data)
            ELSE pc' = "fin" /\ result' = "False" /\ bytesRead' = bytesRead
    /\ acks' = AcksAfter(acks)
    /\ blk' = NoBlock
    /\ UNCHANGED <<bodyFrame, held, noRecv, written, chunksLeft, xfer>>
    /\ UNCHANGED auxVars

\* read_eprom / dev_read_eprom: send_ack for the chunk, then count its bytes.
ReadAck ==
    /\ pc = "read_ack"
    /\ \E o \in SendOutcomes :
         /\ Sent(o)
         /\ IF o = "ok"
            THEN /\ pc' = "read_loop" /\ result' = result
                 /\ bytesRead' = bytesRead + Len(blk.out.data)
            ELSE pc' = "fin" /\ result' = "False" /\ bytesRead' = bytesRead
    /\ acks' = AcksAfter(acks)
    /\ blk' = NoBlock
    /\ UNCHANGED <<bodyFrame, held, noRecv, written, chunksLeft, xfer>>
    /\ UNCHANGED auxVars

\* EpromOperator._calculate_buffer_size: the block size of the programmer.
CalculateBufferSize(programmer_info) ==
    IF /\ programmer_info # NoInfo /\ programmer_info # <<>>
       /\ \E i \in 1..Len(programmer_info) : programmer_info[i] = "leonardo"
    THEN LEONARDO_BUFFER_SIZE ELSE BUFFER_SIZE

RECURSIVE ReadsOf(_, _)
\* The non-empty chunks file_handle.read(buffer_size) gives, one after the
\* other, for a file of size bytes.
ReadsOf(size, buffer_size) ==
    IF size = 0 THEN 0
    ELSE 1 + ReadsOf(IF size > buffer_size THEN size - buffer_size ELSE 0, buffer_size)

\* os.path.getsize(input_file_path): sizes around the block sizes.
FileSizes ==
    {0, 1, BUFFER_SIZE, BUFFER_SIZE + 1, LEONARDO_BUFFER_SIZE,
     LEONARDO_BUFFER_SIZE + 1, 2 * BUFFER_SIZE + 1, 2 * LEONARDO_BUFFER_SIZE + 1}

\* The device of the end-to-end scenario, as far as the host's waits see it:
\* INIT, then an OK for every chunk of the file and one for the terminator,
\* then MAIN, then END, then silence. d is where it stands, w what a wait
\* received; "off" when the device is not that one.
DeviceScript(d, w, oks, chunks) ==
    CASE d = "init" /\ w = "INIT" -> "serve"
      [] d = "serve" /\ w = "OK" /\ oks < chunks + 1 -> "serve"
      [] d = "serve" /\ w = "MAIN" /\ oks = chunks + 1 -> "main"
      [] d = "main" /\ w = "END" -> "end"
      [] d = "end" /\ w = "SerialTimeoutError" -> "end"
      [] d = "none" -> "none"
      [] OTHER -> "off"

\* _send_file_to_programmer: os.path.exists(input_file_path) and the file that
\* is opened, with its size.
FileCheck ==
    /\ pc = "file_check"
    /\ \E exists \in BOOLEAN, size \in FileSizes :
         LET b == CalculateBufferSize(info)
         IN  /\ ReadsOf(size, b) <= MaxChunks
             /\ IF exists
                THEN /\ pc' = "file_read" /\ result' = result
                     /\ chunksLeft' = ReadsOf(size, b)
                     /\ xfer' = [NoXfer EXCEPT !.size = size, !.buf = b, !.dev = "init"]
                ELSE /\ pc' = "fin" /\ result' = "False" /\ chunksLeft' = 0
                     /\ size = 0 /\ xfer' = NoXfer
    /\ UNCHANGED <<bodyFrame, held, noSend, noRecv, failure, bytesRead, written, blk>>
    /\ UNCHANGED auxVars

\* _send_file_to_programmer: data_chunk = file_handle.read(buffer_size)
FileRead ==
    /\ pc = "file_read"
    /\ pc' = IF chunksLeft = 0 THEN "send_term" ELSE "send_len"
    /\ UNCHANGED <<bodyFrame, held, result, noSend, noRecv, failure, noData>>
    /\ UNCHANGED auxVars

\* _send_file_to_programmer: one send_bytes: the zero length at the end of the
\* file, the length of a chunk, or the chunk.
FileSend ==
    /\ pc \in {"send_term", "send_len", "send_data"}
    /\ \E o \in SendOutcomes :
         /\ Sent(o)
         /\ IF o = "ok"
            THEN /\ result' = result
                 /\ pc' = CASE pc = "send_term" -> "wait_term"
                            [] pc = "send_len" -> "wait_len"
                            [] pc = "send_data" -> "wait_data"
                 /\ xfer' = [xfer EXCEPT
                                !.term = IF pc = "send_term" THEN @ + 1 ELSE @,
                                !.sent = IF pc = "send_data" THEN @ + 1 ELSE @]
            ELSE /\ pc' = "fin" /\ result' = "False"
                 /\ xfer' = [xfer EXCEPT !.dev = "off"]
    /\ UNCHANGED <<bodyFrame, held, acks, noRecv, bytesRead, written, blk, chunksLeft>>
    /\ UNCHANGED auxVars

\* _send_file_to_programmer: one expect_ok and the branch on is_ok.
FileWait ==
    /\ pc \in {"wait_term", "wait_len", "wait_data"}
    /\ \E w \in WaitOutcomes :
         LET r == ExpectAck(w, NoMsg)
         IN  /\ Received(w)
             /\ xfer' = [xfer EXCEPT
                            !.oks = IF w = "OK" THEN @ + 1 ELSE @,
                            !.dev = DeviceScript(@, w, xfer.oks,
                                                 ReadsOf(xfer.size, xfer.buf)),
                            !.mainAfterTerm = @ \/ (pc = "wait_term" /\ w = "MAIN")]
             /\ IF ~r.done THEN UNCHANGED <<pc, result, chunksLeft>>
                ELSE IF r.raise # "none" \/ ~r.ok
                THEN pc' = "fin" /\ result' = "False" /\ chunksLeft' = chunksLeft
                ELSE CASE pc = "wait_term" ->
                            pc' = "fin" /\ result' = "True" /\ chunksLeft' = chunksLeft
                       [] pc = "wait_len" ->
                            pc' = "send_data" /\ result' = result
                            /\ chunksLeft' = chunksLeft
                       [] pc = "wait_data" ->
                            pc' = "file_read" /\ result' = result
                            /\ chunksLeft' = chunksLeft - 1
    /\ UNCHANGED <<bodyFrame, held, noSend, bytesRead, written, blk>>
    /\ UNCHANGED auxVars

\* The finally clause of every facade operation: _disconnect_programmer(), which
\* calls self.comm.disconnect() when self.comm is set.
Fin ==
    /\ pc = "fin"
    /\ IF operComm
       THEN pc' = "disc" /\ ret' = "fin_ret"
       ELSE pc' = "fin_ret" /\ ret' = ret
    /\ xfer' = NoXfer
    /\ UNCHANGED <<op, force, exc, held, result, opsLeft, findVars, connVars,
                   protoVars, total, bytesRead, written, blk, chunksLeft>>
    /\ UNCHANGED auxVars

\* _disconnect_programmer after disconnect(): self.comm = None, unless
\* disconnect() raised; then the operation returns, or raises what is in flight.
FinRet ==
    /\ pc = "fin_ret"
    /\ operComm' = IF exc # "none" THEN operComm ELSE FALSE
    /\ result' = IF exc # "none" \/ held # "none" THEN "raise" ELSE result
    /\ exc' = "none" /\ held' = "none" /\ pc' = "done"
    /\ UNCHANGED <<op, force, ret, opsLeft, findVars, conn, probeComm, localComm,
                   info, leaked, closeCalls, protoVars, dataVars>>
    /\ UNCHANGED auxVars

\* ------------------------------------------- HardwareManager, FirmwareManager
\* comm = SerialCommunicator.find_and_connect(...) in a manager's try block, and
\* its except (ProgrammerNotFoundError, SerialError, SerialTimeoutError).
HwConnectReturn ==
    /\ pc = "find_ret" /\ op \in HardwareOps \cup FirmwareOps
    /\ IF exc = "none"
       THEN /\ localComm' = TRUE /\ session' = TRUE /\ result' = result
            /\ pc' = IF op = "hw_config_set" THEN "hw_simple" ELSE "hw_wait"
       ELSE /\ localComm' = FALSE /\ session' = session /\ result' = "False"
            /\ pc' = "hw_fin"
    /\ exc' = "none"
    /\ preferred' = 0 /\ cands' = <<>> /\ ci' = 0 /\ probeComm' = FALSE
    /\ scan' = <<>> /\ probed' = <<>>
    /\ ack' = <<FALSE, NoMsg>>
    /\ UNCHANGED <<op, force, held, ret, opsLeft, cfgPort, conn, operComm, info,
                   leaked, closeCalls, hsEvent, acks, cmdSent, errSeen, sentAfterErr,
                   phase, failure, portOpened, dataVars>>
    /\ UNCHANGED auxVars

\* _execute_simple_command: success when programmer_info is not None.
HwSimple ==
    /\ pc = "hw_simple"
    /\ result' = IF info # NoInfo THEN "True" ELSE "False"
    /\ pc' = "hw_fin"
    /\ UNCHANGED <<bodyFrame, held, noSend, noRecv, failure, noData>>
    /\ UNCHANGED auxVars

\* is_ok, msg = comm.expect_ack() of get_hardware_revision, set_hardware_config,
\* _read_voltage_loop and check_current_firmware, and the branch on it; wellFormed
\* is check_current_firmware's test of the message.
HwWait ==
    /\ pc = "hw_wait"
    /\ \E w \in WaitOutcomes, wellFormed \in BOOLEAN :
         LET r == ExpectAck(w, NoMsg)
         IN  /\ (op # "fw_check" \/ w # "OK" => wellFormed)
             /\ Received(w)
             /\ IF ~r.done THEN UNCHANGED <<pc, result>>
                ELSE IF r.raise # "none" \/ ~r.ok
                THEN pc' = "hw_fin" /\ result' = "False"
                ELSE IF op = "voltage"
                THEN pc' = "volt_ack" /\ result' = result
                ELSE /\ pc' = "hw_fin"
                     /\ result' = IF wellFormed THEN "True" ELSE "False"
    /\ UNCHANGED <<bodyFrame, held, noSend, noData>>
    /\ UNCHANGED auxVars

\* _read_voltage_loop: comm.send_ack() after the ready signal.
VoltAck ==
    /\ pc = "volt_ack"
    /\ \E o \in SendOutcomes :
         /\ Sent(o)
         /\ IF o = "ok"
            THEN pc' = "volt_loop" /\ result' = result
            ELSE pc' = "hw_fin" /\ result' = "False"
    /\ acks' = AcksAfter(acks)
    /\ UNCHANGED <<bodyFrame, held, noRecv, noData>>
    /\ UNCHANGED auxVars

\* _read_voltage_loop: one round of the reading loop; elapsed is the test of
\* timeout_seconds, o the outcome of the send_ack that asks for the next reading.
VoltLoop ==
    /\ pc = "volt_loop"
    /\ \E w \in WaitOutcomes, elapsed \in BOOLEAN, o \in SendOutcomes :
         /\ (w # "DATA" => ~elapsed /\ o = "ok")
         /\ (elapsed => o = "ok")
         /\ errSeen' = (errSeen \/ w = "ERROR")
         /\ phase' = PhaseAfter(phase, w)
         /\ IF w = "DATA" /\ ~elapsed
            THEN /\ acks' = AcksAfter(acks)
                 /\ sentAfterErr' = (sentAfterErr \/ errSeen)
                 /\ failure' = IF o = "ok" THEN failure ELSE "transport"
                 /\ IF o = "ok" THEN UNCHANGED <<pc, result>>
                    ELSE pc' = "hw_fin" /\ result' = "False"
            ELSE /\ UNCHANGED noSend
                 /\ failure' = FailureAfter(failure, w)
                 /\ pc' = "hw_fin"
                 /\ result' = IF w \in {"DATA", "OK"} THEN "True" ELSE "False"
    /\ UNCHANGED <<bodyFrame, held, noData>>
    /\ UNCHANGED auxVars

\* The finally clause of a manager's operation: if comm: comm.disconnect()
HwFin ==
    /\ pc = "hw_fin"
    /\ IF localComm
       THEN pc' = "disc" /\ ret' = "hw_fin_ret"
       ELSE pc' = "hw_fin_ret" /\ ret' = ret
    /\ UNCHANGED <<op, force, exc, held, result, opsLeft, findVars, connVars,
                   protoVars, dataVars>>
    /\ UNCHANGED auxVars

\* The manager's operation returns, or raises what its disconnect() raised.
HwFinRet ==
    /\ pc = "hw_fin_ret"
    /\ result' = IF exc # "none" THEN "raise" ELSE result
    /\ exc' = "none" /\ pc' = "done" /\ localComm' = FALSE
    /\ UNCHANGED <<op, force, held, ret, opsLeft, findVars, conn, probeComm,
                   operComm, info, leaked, closeCalls, protoVars, dataVars>>
    /\ UNCHANGED auxVars

\* The caller has the operation's outcome; the next call starts afresh.
Return ==
    /\ pc = "done"
    /\ pc' = "idle" /\ op' = "none" /\ force' = FALSE /\ result' = "none"
    /\ ret' = "none" /\ preferred' = 0 /\ cands' = <<>> /\ ci' = 0
    /\ scan' = <<>> /\ probed' = <<>> /\ probeComm' = FALSE
    /\ ack' = <<FALSE, NoMsg>> /\ hsEvent' = NoEvent /\ acks' = 0
    /\ cmdSent' = FALSE /\ errSeen' = FALSE /\ sentAfterErr' = FALSE
    /\ phase' = 0 /\ failure' = "none" /\ portOpened' = FALSE /\ session' = FALSE
    /\ total' = 0 /\ bytesRead' = 0 /\ written' = 0 /\ blk' = NoBlock
    /\ chunksLeft' = 0 /\ xfer' = NoXfer
    /\ closeCalls' = 0
    /\ UNCHANGED <<exc, held, opsLeft, cfgPort, conn, operComm, localComm, info,
                   leaked>>
    /\ UNCHANGED auxVars

Next ==
    \/ StartOp \/ FindStart \/ ProbeOpen \/ ProbeDrain \/ ProbeSend \/ ProbeAck
    \/ ProbeGate \/ Disconnect \/ Finalize \/ ProbeElse \/ ProbeHandler
    \/ ProbeHandled \/ ProbeNext
    \/ SetupReturn \/ ReadRange \/ BodyAck \/ RegsSend \/ WaitOk
    \/ ReadLoop \/ ReadBlock \/ ReadAck
    \/ FileCheck \/ FileRead \/ FileSend \/ FileWait \/ Fin \/ FinRet
    \/ HwConnectReturn \/ HwSimple \/ HwWait \/ VoltAck \/ VoltLoop
    \/ HwFin \/ HwFinRet \/ Return

Spec == Init /\ [][Next]_vars

\* ------------------------------------------------------------- interruption
\* SIGINT while a port is open: exit_gracefully raises SystemExit where the
\* program stands. Inside _probe_port no clause catches it (the clauses name
\* SerialError, FirmwareOutdatedError and Exception), the communicator is held
\* by a local of _probe_port only, so no finally clause of the callers finds it
\* and the process ends with the port open. Inside the try block of an
\* operation that holds its communicator, the finally clause disconnects and
\* the process ends after that.
Interrupt ==
    LET probing == {"probe_drain", "probe_send", "probe_ack", "probe_gate"}
        body == {"read_range", "body_ack", "regs_send", "wait_ok", "read_loop",
                 "read_block", "read_ack", "file_check", "file_read", "send_len",
                 "wait_len", "send_data", "wait_data", "send_term", "wait_term",
                 "hw_simple", "hw_wait", "volt_ack", "volt_loop"}
    IN  /\ conn # 0
        /\ \/ /\ pc \in probing
              /\ pc' = "exited" /\ ret' = ret
           \/ /\ pc \in body /\ (operComm \/ localComm)
              /\ pc' = "disc" /\ ret' = "sig_exit"
        /\ UNCHANGED <<op, force, exc, held, result, opsLeft, findVars, connVars,
                       protoVars, dataVars>>
        /\ UNCHANGED auxVars

\* SystemExit leaves the finally clause: the process ends.
SigExit ==
    /\ pc = "sig_exit"
    /\ pc' = "exited"
    /\ UNCHANGED <<op, force, exc, held, ret, result, opsLeft, findVars, connVars,
                   protoVars, dataVars>>
    /\ UNCHANGED auxVars

SigNext == Next \/ Interrupt \/ SigExit

SigSpec == Init /\ [][SigNext]_vars

\* ------------------------------------------- functions applied on their own
\* Longest version string handed to _is_version_sufficient.
MaxVerLen == 5

\* Characters of a version string: those of the token, an upper-case X and a
\* character that is no digit.
VersionAlphabet == VerChars \cup {"X", "?"}
\* The strings handed over. Python's integers have no width; the strings are
\* kept to at most two letters x so that no component leaves the integers the
\* model checker computes with.
VersionStrings ==
    {s \in UNION {[1..n -> VersionAlphabet] : n \in 0..MaxVerLen} :
        Cardinality({i \in 1..Len(s) : s[i] \in {"x", "X"}}) <= 2}

\* Minimum versions: the one _probe_port asks for, and others.
RequiredVersions ==
    {RequiredVersion, <<"1", "0", "0", "0">>, <<>>}

VersionCalls ==
    [fn : {"_is_version_sufficient"}, current : VersionStrings,
     required : RequiredVersions]

\* EXPECTED_PREFIXES, in the order of the regular expression's alternation.
EXPECTED_PREFIXES ==
    << <<"O", "K">>,
       <<"I", "N", "F", "O">>,
       <<"D", "E", "B", "U", "G">>,
       <<"E", "R", "R", "O", "R">>,
       <<"W", "A", "R", "N">>,
       <<"D", "A", "T", "A">>,
       <<"M", "A", "I", "N">>,
       <<"I", "N", "I", "T">>,
       <<"E", "N", "D">> >>

\* NON_RESPONSE_PREFIXES
NON_RESPONSE_PREFIXES == {<<"I", "N", "F", "O">>, <<"D", "E", "B", "U", "G">>}

\* Response.type of a line without a known prefix: None.
NoType == <<"None">>
\* _parse_response_line returning None.
NoResponse == [some |-> FALSE, type |-> NoType, message |-> <<>>]

\* Bytes below 32 that the lines of the model contain.
ControlBytes == {"\r", "\n", "\t"}
\* 32 <= b <= 126
Printable(b) == b \notin ControlBytes

\* The word characters of the regular expression's \b: letters, digits and
\* the underscore.
WordChars ==
    {"a", "b", "c", "d", "e", "f", "g", "h", "i", "j", "k", "l", "m",
     "n", "o", "p", "q", "r", "s", "t", "u", "v", "w", "x", "y", "z",
     "A", "B", "C", "D", "E", "F", "G", "H", "I", "J", "K", "L", "M",
     "N", "O", "P", "Q", "R", "S", "T", "U", "V", "W", "X", "Y", "Z",
     "0", "1", "2", "3", "4", "5", "6", "7", "8", "9", "_"}
IsWordChar(c) == c \in WordChars

\* bytes(b for b in line_bytes if 32 <= b <= 126).decode("ascii")
FilterPrintable(line) == SelectSeq(line, Printable)

\* \b(P):(.*) tried at position i of s: the prefix matched there, <<>> if none.
\* Every prefix starts with a word character, so \b holds at i exactly when
\* no word character precedes.
PrefixAt(s, i) ==
    LET fits(k) ==
            LET P == EXPECTED_PREFIXES[k]
            IN  /\ i + Len(P) <= Len(s)
                /\ SubSeq(s, i, i + Len(P) - 1) = P
                /\ s[i + Len(P)] = ":"
        hits == {k \in 1..Len(EXPECTED_PREFIXES) : fits(k)}
    IN  IF (i = 1 \/ ~IsWordChar(s[i - 1])) /\ hits # {}
        THEN EXPECTED_PREFIXES[CHOOSE k \in hits : \A h \in hits : k <= h]
        ELSE <<>>

\* str.strip() of printable text: spaces off both ends.
Strip(t) ==
    LET keep == {i \in 1..Len(t) : t[i] # " "}
    IN  IF keep = {} THEN <<>>
        ELSE SubSeq(t, CHOOSE i \in keep : \A j \in keep : i <= j,
                       CHOOSE i \in keep : \A j \in keep : j <= i)

\* PREFIX_REGEX.search(line_str): the leftmost match, as (group 1, group 2);
\* group 1 is <<>> when nothing matches.
PREFIX_REGEX_search(s) ==
    LET where == {i \in 1..Len(s) : PrefixAt(s, i) # <<>>}
    IN  IF where = {} THEN [g1 |-> <<>>, g2 |-> <<>>]
        ELSE LET i == CHOOSE i \in where : \A j \in where : i <= j
                 P == PrefixAt(s, i)
             IN  [g1 |-> P, g2 |-> SubSeq(s, i + Len(P) + 1, Len(s))]

\* _parse_response_line(line_bytes)
ParseResponseLine(line_bytes) ==
    IF line_bytes = <<>> THEN NoResponse
    ELSE LET line_str == FilterPrintable(line_bytes)
             match == PREFIX_REGEX_search(line_str)
         IN  IF line_str = <<>> THEN NoResponse
             ELSE IF match.g1 # <<>>
             THEN [some |-> TRUE, type |-> match.g1, message |-> Strip(match.g2)]
             ELSE [some |-> TRUE, type |-> NoType, message |-> line_str]

\* Lines handed to _parse_response_line (read_line_bytes hands over no empty
\* one): something before, a word, a separator, something after.
LineStarts == {<<>>, <<"n", "o", "i", "s", "e", " ">>, <<"X">>, <<"_">>, <<"\t">>}
LineWords ==
    {EXPECTED_PREFIXES[k] : k \in 1..Len(EXPECTED_PREFIXES)}
        \cup {<<>>, <<"o", "k">>, <<"O", "K", "A", "Y">>}
LineSeparators == {<<>>, <<":">>, <<" ">>, <<":", " ", "O", "K", ":">>}
LineEnds == {<<>>, <<" ", "h", "e", "l", "l", "o", " ", "w", "o", "r", "l", "d">>, <<" ", " ", "m", " ">>, <<"\r", "\n">>,
             <<" ", "m", "\r", "\n">>}
ParseLines ==
    {a \o w \o c \o e : a \in LineStarts, w \in LineWords, c \in LineSeparators,
                        e \in LineEnds} \ {<<>>}

ParseCalls == [fn : {"_parse_response_line"}, line : ParseLines]

\* Longest chunk handed to the sends of the write loop on their own.
MaxChunkLen == 3

\* n.to_bytes(2, byteorder="big")
ToBytesBig2(n) == <<(n \div 256) % 256, n % 256>>

\* The bytes _send_file_to_programmer sends for one data_chunk read from the
\* file, in the order sent and with every expect_ok answered by OK: for an
\* empty chunk the zero length, else the length and then the chunk.
ChunkBytesSent(data_chunk) ==
    IF data_chunk = <<>> THEN ToBytesBig2(0)
    ELSE ToBytesBig2(Len(data_chunk)) \o data_chunk

\* Chunks of the input file: bytes 0, 1, '#' and 255.
ChunkCalls ==
    [fn : {"send_chunk"},
     chunk : UNION {[1..n -> {0, 1, 35, 255}] : n \in 0..MaxChunkLen}]

\* A mutant of the flag combination: the operation flags replace the chip's.
OrIntReplaces(a, b) == b

RECURSIVE OrInt(_, _)
\* a | b on two non-negative integers, bit by bit.
OrInt(a, b) ==
    IF a = 0 THEN b
    ELSE IF b = 0 THEN a
    ELSE (IF a % 2 = 1 \/ b % 2 = 1 THEN 1 ELSE 0) + 2 * OrInt(a \div 2, b \div 2)

\* eprom_data_dict.get("flags", 0)
GetFlags(eprom_data_dict) ==
    IF "flags" \in DOMAIN eprom_data_dict THEN eprom_data_dict.flags ELSE 0

\* _setup_operation: the command is a copy of the chip record with "cmd" and
\* "flags" set.
SetupCommand(eprom_data_dict, cmd, operation_flags) ==
    [k \in DOMAIN eprom_data_dict \cup {"cmd", "flags"} |->
        CASE k = "cmd" -> cmd
          [] k = "flags" -> OrInt(GetFlags(eprom_data_dict), operation_flags)
          [] OTHER -> eprom_data_dict[k]]

\* A mutant of the copy: the command is the caller's record itself, which so
\* takes every entry set in the command.
DictAlias(original, assigned) == assigned

\* eprom_data_dict.copy(): the entries _setup_operation sets go to the copy,
\* the caller's record keeps its own.
DictCopy(original, assigned) == original

\* json.dumps(command_dict, separators=(",", ":")): every entry of the
\* command, key and value.
JsonDumps(command_dict) == {<<k, command_dict[k]>> : k \in DOMAIN command_dict}

\* Chip records with and without a "flags" entry; flag words: none, single
\* flags, two flags, a high and a low flag; ports is the number of candidates
\* find_and_connect probes with the command.
SetupCalls ==
    LET FlagValues == {0, FLAG_FORCE, FLAG_CAN_ERASE, FLAG_FORCE + FLAG_CAN_ERASE,
                       FLAG_VERBOSE, FLAG_VERBOSE + FLAG_FORCE}
    IN  [fn : {"_setup_operation"},
         eprom : {[type |-> 1]} \cup {[type |-> 1, flags |-> f] : f \in FlagValues},
         cmd : {COMMAND_READ, COMMAND_WRITE},
         operation_flags : FlagValues,
         ports : 1..NPorts]

\* dev_set_registers: the three range tests that precede find_and_connect.
RegistersInRange(msb, lsb, ctrl_reg, firestarter) ==
    /\ ~(msb < 0 \/ msb > 255)
    /\ ~(lsb < 0 \/ lsb > 255)
    /\ ~(\/ ctrl_reg < 0
          \/ (ctrl_reg > 511 /\ firestarter)
          \/ (ctrl_reg > 255 /\ ~firestarter))

\* _setup_operation as called by dev_set_address_mode: the address string only
\* has to parse (ValueError gives (None, 0)); its value is not compared with
\* the chip record.
AddressAccepted(eprom_data_dict, address) == address.parses

\* Raw register values around the 8-bit and 9-bit limits.
RegisterCalls ==
    LET RegisterValues == {-1, 0, 255, 256, 511, 512}
    IN  [fn : {"dev_set_registers"}, msb : RegisterValues, lsb : RegisterValues,
         ctrl_reg : RegisterValues, firestarter : BOOLEAN]

\* Chip records of 4 and 8 addressable bytes; an address string that does
\* not parse, or its integer value.
AddressCalls ==
    [fn : {"dev_set_address_mode"}, eprom : {[memory_size |-> m] : m \in {4, 8}},
     address : {[parses |-> FALSE, value |-> 0]} \cup
               {[parses |-> TRUE, value |-> v] : v \in {-1, 0, 3, 4, 7, 8, 65536}}]

\* What successive read_line_bytes calls return for one line of the device:
\* connection.readline() returns at the newline, or with what has arrived when
\* the port's read timeout expires; cut is the number of bytes that had
\* arrived then, 0 when the line arrived whole.
ReadLineBytes(line, cut) ==
    IF cut = 0 THEN <<line>>
    ELSE <<SubSeq(line, 1, cut), SubSeq(line, cut + 1, Len(line))>>

\* A line of each known prefix, arriving whole or cut after any of its bytes.
ReadLineCalls ==
    LET lines == {EXPECTED_PREFIXES[k] \o <<":", " ", "m", "\r", "\n">> :
                     k \in 1..Len(EXPECTED_PREFIXES)}
    IN  UNION {[fn : {"read_line_bytes"}, line : {l}, cut : 0..(Len(l) - 1)] :
                  l \in lines}

\* A unit run: one function, its arguments drawn from the bounded sets.
FnInit ==
    /\ Idle
    /\ cfgPort = 0
    /\ call \in VersionCalls \cup ParseCalls \cup ChunkCalls \cup SetupCalls
                 \cup RegisterCalls \cup AddressCalls \cup ReadLineCalls
    /\ out = NoOut /\ wait = NoWait

\* SerialCommunicator._is_version_sufficient(current, required)
CallIsVersionSufficient ==
    /\ call.fn = "_is_version_sufficient" /\ ~out.done
    /\ out' = [done |-> TRUE,
               val |-> IsVersionSufficient(call.current, call.required)]
    /\ UNCHANGED <<progVars, call, wait>>

\* SerialCommunicator._parse_response_line(line_bytes)
CallParseResponseLine ==
    /\ call.fn = "_parse_response_line" /\ ~out.done
    /\ out' = [done |-> TRUE, val |-> ParseResponseLine(call.line)]
    /\ UNCHANGED <<progVars, call, wait>>

\* One round of the loop of _send_file_to_programmer for the chunk read.
CallSendChunk ==
    /\ call.fn = "send_chunk" /\ ~out.done
    /\ out' = [done |-> TRUE, val |-> ChunkBytesSent(call.chunk)]
    /\ UNCHANGED <<progVars, call, wait>>

\* _setup_operation: the command is built on a copy of the chip record and
\* handed to find_and_connect, where _probe_port gives it to send_json_command
\* for each candidate; sent is what goes out to each.
CallSetupOperation ==
    /\ call.fn = "_setup_operation" /\ ~out.done
    /\ LET command == SetupCommand(call.eprom, call.cmd, call.operation_flags)
       IN  /\ out' = [done |-> TRUE, val |-> command,
                      sent |-> [i \in 1..call.ports |-> JsonDumps(command)]]
           /\ call' = [call EXCEPT !.eprom = DictCopy(@, command)]
    /\ UNCHANGED <<progVars, wait>>

\* dev_set_registers up to find_and_connect: connects tells whether the
\* function goes on to open a port, or returns False before that.
CallDevSetRegisters ==
    /\ call.fn = "dev_set_registers" /\ ~out.done
    /\ out' = [done |-> TRUE,
               val |-> [connects |-> RegistersInRange(call.msb, call.lsb,
                                         call.ctrl_reg, call.firestarter)]]
    /\ UNCHANGED <<progVars, call, wait>>

\* dev_set_address_mode up to find_and_connect.
CallDevSetAddressMode ==
    /\ call.fn = "dev_set_address_mode" /\ ~out.done
    /\ out' = [done |-> TRUE,
               val |-> [connects |-> AddressAccepted(call.eprom, call.address)]]
    /\ UNCHANGED <<progVars, call, wait>>

\* The loop of _read_and_parse_lines over what read_line_bytes returns for
\* one line: the responses it yields, in order.
CallReadLineBytes ==
    /\ call.fn = "read_line_bytes" /\ ~out.done
    /\ LET pieces == ReadLineBytes(call.line, call.cut)
           parsed == [i \in 1..Len(pieces) |-> ParseResponseLine(pieces[i])]
           Yielded(response) == response.some
       IN  out' = [done |-> TRUE, val |-> SelectSeq(parsed, Yielded)]
    /\ UNCHANGED <<progVars, call, wait>>

FnNext ==
    \/ CallIsVersionSufficient
    \/ CallParseResponseLine
    \/ CallSendChunk
    \/ CallSetupOperation
    \/ CallDevSetRegisters
    \/ CallDevSetAddressMode
    \/ CallReadLineBytes

FnSpec == FnInit /\ [][FnNext]_vars

\* ------------------------------------------------- a wait run on its own
\* The timeout of a wait, in rounds of the loop of _read_and_parse_lines (each
\* round ends with time.sleep(0.01)).
TimeoutTicks == 3
\* Lines the device sends during one wait, at most.
MaxLines == 3

\* What the device may send: a line of each known prefix, a line without a
\* prefix, a blank line.
DeviceLines ==
    {EXPECTED_PREFIXES[k] \o <<":", " ", "m", "\r", "\n">> : k \in 1..Len(EXPECTED_PREFIXES)}
        \cup {<<"h", "i", "\r", "\n">>, <<"\r", "\n">>}

\* What one read_line_bytes call gives: nothing buffered, a line, or a
\* SerialException of the port.
ReadOutcomes ==
    {[kind |-> "nothing", bytes |-> <<>>], [kind |-> "SerialException", bytes |-> <<>>]}
        \cup [kind : {"line"}, bytes : DeviceLines]

\* A mutant of get_response's test: any type but INFO and DEBUG is returned.
GetResponseReturnsUntyped(response) ==
    response.type \notin NON_RESPONSE_PREFIXES

\* get_response: response.type and response.type not in NON_RESPONSE_PREFIXES
GetResponseReturns(response) ==
    response.type # NoType /\ response.type \notin NON_RESPONSE_PREFIXES

\* A mutant of the clock: every round starts the timeout anew.
ClockRestartsAlways(clock, yielded) == 1

\* time.time() - start_time at the end of a round of _read_and_parse_lines:
\* start_time is set anew after a response was yielded, then the round sleeps.
ClockAfter(clock, yielded) == IF yielded THEN 1 ELSE clock + 1

\* Rounds since the device's last line, counted up to the timeout.
QuietAfter(quiet, gotLine) ==
    IF gotLine THEN 1 ELSE IF quiet < TimeoutTicks THEN quiet + 1 ELSE quiet

\* A get_response call, on its own or as the first of an expect_ack call, or
\* a disconnect call, on a communicator, connected or not.
WaitInit ==
    /\ Idle /\ cfgPort = 0 /\ call = NoCall /\ out = NoOut
    /\ \E c \in BOOLEAN, f \in {"call", "disconnect"}, a \in BOOLEAN :
         /\ a => f = "call"
         /\ wait = [pc |-> f, connected |-> c, clock |-> 0, quiet |-> 0,
                    lines |-> <<>>, silent |-> FALSE, val |-> NoResponse,
                    exc |-> "none", ack |-> a]

\* _read_and_parse_lines up to its loop: SerialError when not connected, else
\* start_time = time.time().
GetResponseStart ==
    /\ wait.pc = "call"
    /\ wait' = IF wait.connected
               THEN [wait EXCEPT !.pc = "loop"]
               ELSE [wait EXCEPT !.pc = "raised", !.exc = "SerialError"]
    /\ UNCHANGED <<progVars, call, out>>

\* One round of the loop of _read_and_parse_lines with get_response's test of
\* what it yields: read_line_bytes, _parse_response_line, the yield, the new
\* start_time, the sleep.
WaitPoll ==
    /\ wait.pc = "loop" /\ wait.clock < TimeoutTicks
    /\ \E o \in ReadOutcomes :
         /\ wait.silent => o.kind = "nothing"
         /\ o.kind = "line" => Len(wait.lines) < MaxLines
         /\ LET response == ParseResponseLine(o.bytes)
            IN  wait' =
                  CASE o.kind = "SerialException" ->
                         [wait EXCEPT !.pc = "raised", !.exc = "SerialError"]
                    [] o.kind = "nothing" ->
                         [wait EXCEPT !.clock = ClockAfter(@, FALSE),
                                      !.quiet = QuietAfter(@, FALSE)]
                    [] o.kind = "line" /\ response.some /\ GetResponseReturns(response) ->
                         [wait EXCEPT !.pc = "returned", !.val = response,
                                      !.lines = Append(@, o.bytes)]
                    [] OTHER ->
                         [wait EXCEPT !.clock = ClockAfter(@, response.some),
                                      !.quiet = QuietAfter(@, TRUE),
                                      !.lines = Append(@, o.bytes)]
    /\ UNCHANGED <<progVars, call, out>>

\* The loop's condition fails: the generator ends and get_response raises
\* SerialTimeoutError.
WaitExpire ==
    /\ wait.pc = "loop" /\ ~(wait.clock < TimeoutTicks)
    /\ wait' = [wait EXCEPT !.pc = "raised", !.exc = "SerialTimeoutError"]
    /\ UNCHANGED <<progVars, call, out>>

\* The device falls silent for good: from now on nothing is buffered.
DeviceHangs ==
    /\ wait.pc \in {"call", "loop", "disconnect", "drain"} /\ ~wait.silent
    /\ wait' = [wait EXCEPT !.silent = TRUE]
    /\ UNCHANGED <<progVars, call, out>>

\* disconnect: nothing when not connected; else consume_remaining_input,
\* which enters _read_and_parse_lines with start_time = time.time().
DisconnectStart ==
    /\ wait.pc = "disconnect"
    /\ wait' = [wait EXCEPT !.pc = IF wait.connected THEN "drain" ELSE "disconnected"]
    /\ UNCHANGED <<progVars, call, out>>

\* One round of the loop of _read_and_parse_lines under consume_remaining_input,
\* which drops what is yielded. A SerialError leaves disconnect through its
\* finally clause, close() not called.
DrainPoll ==
    /\ wait.pc = "drain" /\ wait.clock < TimeoutTicks
    /\ \E o \in ReadOutcomes :
         /\ wait.silent => o.kind = "nothing"
         /\ wait' =
               CASE o.kind = "SerialException" ->
                      [wait EXCEPT !.pc = "raised", !.exc = "SerialError",
                                   !.connected = FALSE]
                 [] o.kind = "nothing" ->
                      [wait EXCEPT !.clock = ClockAfter(@, FALSE),
                                   !.quiet = QuietAfter(@, FALSE)]
                 [] OTHER ->
                      [wait EXCEPT !.clock = ClockAfter(@, ParseResponseLine(o.bytes).some),
                                   !.quiet = QuietAfter(@, TRUE)]
    /\ UNCHANGED <<progVars, call, out>>

\* The loop's condition fails: the drain is over, disconnect closes the port
\* and clears its fields.
DrainExpire ==
    /\ wait.pc = "drain" /\ ~(wait.clock < TimeoutTicks)
    /\ wait' = [wait EXCEPT !.pc = "closed", !.connected = FALSE]
    /\ UNCHANGED <<progVars, call, out>>

\* expect_ack's loop around get_response: OK gives (True, message), ERROR
\* gives (False, message), any other event is dropped and get_response is
\* called again, with its timeout counted anew.
ExpectAckLoop ==
    /\ wait.pc = "returned" /\ wait.ack
    /\ wait' = CASE wait.val.type = <<"O", "K">> -> [wait EXCEPT !.pc = "acked"]
                 [] wait.val.type = <<"E", "R", "R", "O", "R">> ->
                      [wait EXCEPT !.pc = "nacked"]
                 [] OTHER ->
                      [wait EXCEPT !.pc = "loop", !.clock = 0, !.quiet = 0,
                                   !.lines = <<>>, !.val = NoResponse]
    /\ UNCHANGED <<progVars, call, out>>

WaitNext ==
    \/ ExpectAckLoop
    \/ GetResponseStart
    \/ WaitPoll
    \/ WaitExpire
    \/ DeviceHangs
    \/ DisconnectStart
    \/ DrainPoll
    \/ DrainExpire

\* The host runs on: every round of the loop returns from its sleep, and a
\* read of the port returns within the port's own timeout.
WaitSpec ==
    /\ WaitInit /\ [][WaitNext]_vars
    /\ WF_vars(GetResponseStart) /\ WF_vars(WaitPoll) /\ WF_vars(WaitExpire)
    /\ WF_vars(DisconnectStart) /\ WF_vars(DrainPoll) /\ WF_vars(DrainExpire)
    /\ WF_vars(ExpectAckLoop)

\* ------------------------------------------------------------------ claims
\* Where an operation or a probe can be once its connection saw an ERROR event:
\* on the way to disconnect, to the next candidate, or to its caller.
AbortPcs ==
    {"probe_gate", "probe_else", "probe_handler", "probe_handled", "probe_next",
     "probe_open", "disc", "find_ret", "fin", "fin_ret", "hw_fin", "hw_fin_ret",
     "done"}

\* C1: when an operation that got a session returns or raises, the connection is
\* closed: is_connected() is false and the operator holds no communicator.
C1_ClosedOnReturn ==
    (pc = "done" /\ session) => (conn = 0 /\ ~operComm /\ ~localComm)

\* C2: after a failure on a port that was opened, in an operation or in a probe,
\* close() of the serial connection has been called exactly once by the time the
\* operation ends or the next candidate is tried.
C2_CloseExactlyOnce ==
    (pc \in {"done", "probe_next"} /\ portOpened /\ failure # "none")
        => closeCalls = 1

\* C3: at most one serial connection is open at any point: no connection that was
\* dropped without close() is still open while another one is open.
C3_AtMostOneOpen == ~(leaked /\ conn # 0)

\* C4: an operation of the facade that succeeds has received INIT, MAIN and END in
\* this order and has sent three acknowledgements, the last one after END.
C4_PhasesInOrder ==
    (pc = "done" /\ session /\ op \in FacadeOps /\ result = "True")
        => (phase = 3 /\ acks = 3)

\* C5: once an ERROR event was received on a connection, nothing more is sent on
\* it (no acknowledgement, no data chunk, no retry) and the operation or probe is
\* on its way out.
C5_AbortOnError == errSeen => (~sentAfterErr /\ pc \in AbortPcs)

\* C5's case: an operation with a session received an ERROR event and ended with
\* failure, nothing having been sent after the event.
C5_Witness ==
    pc = "done" /\ session /\ errSeen /\ acks > 0 /\ result = "False"

\* C6: an operation that had a session and met an error (device ERROR, timeout,
\* transport error, checksum error) returns False: it neither raises nor
\* returns True.
C6_ErrorsReportedFalse ==
    (pc = "done" /\ session /\ failure # "none") => result = "False"

\* C7: in read and dev-read a block is written, counted and acknowledged only
\* when its checksum was verified; a block that fails ends the transfer without
\* success, none of its bytes written, and nothing more is asked of the device.
C7_VerifiedBeforeUse ==
    LET verified == blk.cks # <<>> /\ blk.cks[1] = XorFold(blk.data)
    IN  /\ pc = "read_ack" => (verified /\ blk.out.data = blk.data)
        /\ (blk.read /\ ~verified) =>
              /\ pc \in {"fin", "disc", "fin_ret", "done"}
              /\ result # "True"
              /\ written = bytesRead

\* C7's case: a verified block was written, acknowledged and counted, and then a
\* block failed its checksum and the read ended with failure.
C7_Witness ==
    /\ pc = "done" /\ op \in {"read", "dev_read"} /\ result = "False"
    /\ blk.out.raise = "SerialError" /\ blk.cks # <<>>
    /\ bytesRead > 0 /\ written = bytesRead

\* C8: read_data_block returns a payload only when as many payload bytes as the
\* length prefix announces were read and their XOR is the checksum byte;
\* otherwise it raises.
C8_ExactAndVerified ==
    (blk.read /\ blk.out.raise = "none") =>
        /\ Len(blk.data) = FromBytesBig(blk.len)
        /\ blk.cks # <<>> /\ blk.cks[1] = XorFold(blk.data)
        /\ blk.out.data = blk.data

\* C9: the handshake wait ends on OK or ERROR with (is_ok, message) of that event;
\* a session is returned only after an OK and carries its message as
\* programmer_info; an ERROR, a timeout or a transport error gives no session,
\* the candidate failing with the ERROR's message as reason.
C9_HandshakeResolves ==
    /\ pc = "probe_gate" =>
          /\ hsEvent.kind \in {"OK", "ERROR"}
          /\ ack = <<hsEvent.kind = "OK", hsEvent.msg>>
    /\ session => (hsEvent.kind = "OK" /\ (conn # 0 => info = hsEvent.msg))
    /\ hsEvent.kind \in {"ERROR", "SerialTimeoutError", "SerialError"} =>
          /\ ~session
          /\ pc = "find_ret" => exc # "none"
          /\ pc = "probe_else" => (hsEvent.kind = "ERROR" /\ ack = <<FALSE, hsEvent.msg>>)

\* C9's case: a session whose programmer_info is the message of the OK event that
\* ended the handshake wait.
C9_Witness ==
    /\ session /\ conn # 0 /\ hsEvent.kind = "OK"
    /\ info = hsEvent.msg /\ info # NoMsg

C11_Parses(s) ==
    LET parts == SplitDots(Lower(s), <<>>)
    IN  /\ s # <<>>
        /\ \A i \in 1..Len(parts) :
              \/ parts[i] = <<"x">>
              \/ parts[i] # <<>> /\ \A j \in 1..Len(parts[i]) : parts[i][j] \in Digits

\* The components of such a string, x being larger than every integer that a
\* string of the model can spell.
C11_Components(s) ==
    LET parts == SplitDots(Lower(s), <<>>)
    IN  [i \in 1..Len(parts) |->
            IF parts[i] = <<"x">> THEN 10 ^ (MaxVerLen + 2) ELSE IntOf(parts[i])]

\* C11: _is_version_sufficient(current, required) is true exactly when both
\* strings parse as dot-separated integer components, x standing for the largest
\* value of its component, and current's components are greater than or equal to
\* required's, compared component by component from the left.
C11_SufficientIffComponentwise ==
    (out.done /\ call.fn = "_is_version_sufficient") =>
        (out.val <=> /\ C11_Parses(call.current) /\ C11_Parses(call.required)
                     /\ TupleGE(C11_Components(call.current),
                                C11_Components(call.required)))


\* C12: when the handshake of a candidate raises firmware-outdated (the device
\* acknowledged the command and the version gate refused its version),
\* find_and_connect ends with FirmwareOutdatedError, that candidate's connection
\* was closed (one close() call, no connection left), and no later candidate is
\* opened or probed: the refused candidate is the last one probed, and the loop
\* never moves to a next candidate after it.
C12_OutdatedStopsDiscovery ==
    /\ (pc = "find_ret" /\ hsEvent.kind = "OK" /\ exc # "none") =>
          /\ exc = "FirmwareOutdatedError"
          /\ conn = 0 /\ closeCalls = 1
          /\ probed = SubSeq(cands, 1, ci)
    /\ (pc \in {"probe_next", "probe_open"}) => hsEvent.kind # "OK"

\* C13: during discovery every error of one candidate other than
\* firmware-outdated is swallowed: the only exceptions that leave
\* find_and_connect are FirmwareOutdatedError and, after the last candidate,
\* ProgrammerNotFoundError; and when the loop is about to take the next
\* candidate, the failed one is disconnected (no connection, and its port, if
\* it was opened, closed once).
C13_CandidateErrorsSwallowed ==
    /\ (pc = "find_ret" /\ exc # "none") =>
          \/ exc = "FirmwareOutdatedError"
          \/ exc = "ProgrammerNotFoundError" /\ ci = Len(cands)
    /\ pc = "probe_next" =>
          /\ exc = "none" /\ conn = 0
          /\ (portOpened => closeCalls = 1)


RECURSIVE C14_Dedup(_, _)
\* seq appended to acc, leaving out what is already there.
C14_Dedup(acc, seq) ==
    IF seq = <<>> THEN acc
    ELSE C14_Dedup(IF \E i \in 1..Len(acc) : acc[i] = Head(seq)
                   THEN acc ELSE Append(acc, Head(seq)),
                   Tail(seq))

\* The explicit port, the persisted port, the scanned matching ports, in this
\* order, without the ones that are not given.
C14_Sources ==
    (IF preferred # 0 THEN <<preferred>> ELSE <<>>)
        \o (IF cfgPort # 0 THEN <<cfgPort>> ELSE <<>>) \o scan

\* C14: the candidates of a discovery are the explicit port, the persisted
\* port and the scanned matching ports, in exactly this order with duplicates
\* removed; the ports probed are the candidates in that order, none twice.
C14_CandidateOrder ==
    (pc \in {"probe_open", "probe_drain", "probe_send", "probe_ack", "probe_gate",
             "probe_next"}) =>
        /\ cands = C14_Dedup(<<>>, C14_Sources)
        /\ probed = SubSeq(cands, 1, Len(probed))
        /\ \A i, j \in 1..Len(probed) : i # j => probed[i] # probed[j]


\* C15: when find_and_connect returns a communicator, it is connected to the
\* candidate probed last, the candidates before it were probed in order and
\* none after it, its handshake succeeded (an OK that passes the version gate)
\* and the configuration value "port" is its port; and the loop passes on to a
\* next candidate only from a candidate whose handshake did not succeed, so
\* the one returned is the first that succeeds.
C15_FirstSuccessReturned ==
    /\ (pc = "find_ret" /\ exc = "none") =>
          /\ ci \in 1..Len(cands) /\ conn = cands[ci] /\ conn # 0
          /\ probed = SubSeq(cands, 1, ci)
          /\ hsEvent.kind = "OK" /\ VersionGate(CommandOf(op), hsEvent.msg)
          /\ cfgPort = conn
    /\ pc = "probe_next" =>
          ~(hsEvent.kind = "OK" /\ VersionGate(CommandOf(op), hsEvent.msg))

\* The second candidate is returned after the first one failed, and the
\* configuration held another port before.
C15_Witness ==
    /\ pc = "find_ret" /\ exc = "none" /\ ci = 2 /\ Len(probed) = 2
    /\ conn = cands[2] /\ cfgPort = conn /\ cands[1] # conn


\* C16: find_and_connect ends in one of three ways. When no candidate's
\* handshake succeeded and none reported outdated firmware (the last wait did
\* not end with an OK; the empty candidate list included) it raises
\* ProgrammerNotFoundError and no connection is left open: the communicator
\* holds none and the port probed last, if it was opened, was closed. When it
\* returns, the communicator is connected and its handshake is complete: the
\* command was sent, the OK received and the identity stored.
C16_NotFoundOrConnected ==
    /\ (pc = "find_ret" /\ exc # "none" /\ hsEvent.kind # "OK") =>
          /\ exc = "ProgrammerNotFoundError"
          /\ conn = 0 /\ (portOpened => closeCalls = 1)
    /\ (pc = "find_ret" /\ exc = "none") =>
          /\ conn # 0 /\ cmdSent /\ hsEvent.kind = "OK" /\ info = hsEvent.msg


\* The line holds a known prefix followed by its colon somewhere.
C20_ContainsPrefix(line) ==
    \E k \in 1..Len(EXPECTED_PREFIXES) :
        LET P == Append(EXPECTED_PREFIXES[k], ":")
        IN  \E i \in 1..Len(line) :
                i + Len(P) - 1 <= Len(line) /\ SubSeq(line, i, i + Len(P) - 1) = P

\* C20: for every known prefix P the line "noise " + P + ": hello world"
\* classifies as kind P with message "hello world"; a line that contains no
\* known prefix classifies as unclassified (type None) with the full line, as
\* far as it is printable, as its message.
C20_ClassifierCorrect ==
    (out.done /\ call.fn = "_parse_response_line") =>
        /\ \A k \in 1..Len(EXPECTED_PREFIXES) :
              call.line = <<"n", "o", "i", "s", "e", " ">> \o EXPECTED_PREFIXES[k]
                              \o <<":", " ", "h", "e", "l", "l", "o", " ", "w", "o", "r", "l", "d">> =>
                  out.val = [some |-> TRUE, type |-> EXPECTED_PREFIXES[k],
                             message |-> <<"h", "e", "l", "l", "o", " ", "w", "o", "r", "l", "d">>]
        /\ ~C20_ContainsPrefix(call.line) =>
              out.val = [some |-> TRUE, type |-> NoType,
                         message |-> FilterPrintable(call.line)]


\* The kinds that are significant: every known prefix but INFO and DEBUG.
C17_Significant(response) ==
    /\ response.some
    /\ \E k \in 1..Len(EXPECTED_PREFIXES) : response.type = EXPECTED_PREFIXES[k]
    /\ response.type \notin NON_RESPONSE_PREFIXES

\* No line received so far in the wait, but for the last n, is significant.
C17_NoneSignificantBut(n) ==
    \A i \in 1..(Len(wait.lines) - n) :
        ~C17_Significant(ParseResponseLine(wait.lines[i]))

\* C17: get_response returns the first significant event received: what it
\* returns is the classification of the last line received, that one is
\* significant and no line before it was. INFO, DEBUG and unclassified lines
\* are never returned and never end the wait: while the wait lasts and when it
\* fails, no significant line was received; and they cause no failure by
\* themselves: the step that raises receives no line, and a timeout is raised
\* only with the timeout elapsed.
C17_FirstSignificantReturned ==
    /\ [](/\ wait.pc = "returned" =>
               /\ Len(wait.lines) >= 1
               /\ wait.val = ParseResponseLine(wait.lines[Len(wait.lines)])
               /\ C17_Significant(wait.val)
               /\ C17_NoneSignificantBut(1)
          /\ wait.pc \in {"loop", "raised"} => C17_NoneSignificantBut(0)
          /\ (wait.pc = "raised" /\ wait.exc = "SerialTimeoutError") =>
               wait.clock >= TimeoutTicks)
    /\ [][(wait.pc = "loop" /\ wait'.pc = "raised") => wait'.lines = wait.lines]_vars

\* A significant event is returned after an INFO line and a line without a
\* prefix were received.
C17_Witness ==
    /\ wait.pc = "returned" /\ Len(wait.lines) = 3
    /\ ParseResponseLine(wait.lines[1]).type = <<"I", "N", "F", "O">>
    /\ ParseResponseLine(wait.lines[2]).type = NoType
    /\ ParseResponseLine(wait.lines[2]).some

\* C18: the timeout restarts whenever a line is received, whatever the line:
\* the time counted against the timeout is the time since the device's last
\* line, and SerialTimeoutError is raised only when the device has sent no
\* line for a whole timeout.
C18_AnyLineRestartsTimeout ==
    /\ wait.pc = "loop" => wait.clock = wait.quiet
    /\ (wait.pc = "raised" /\ wait.exc = "SerialTimeoutError") =>
          wait.quiet >= TimeoutTicks

\* C19: a wait that has had no line for a whole timeout, counted from its
\* start or from the last line received, does not go on: its loop is over and
\* the next step raises SerialTimeoutError; and against a device that has
\* fallen silent every wait ends, with SerialTimeoutError.
C19_SilenceTimesOut ==
    /\ []((wait.pc = "loop" /\ wait.quiet >= TimeoutTicks) =>
              (wait.clock >= TimeoutTicks /\ ~ENABLED WaitPoll))
    /\ (wait.pc = "loop" /\ wait.silent) ~>
          (wait.pc = "raised" /\ wait.exc = "SerialTimeoutError")

\* The device sent a line, fell silent, and the wait timed out a whole timeout
\* after that line.
C19_Witness ==
    /\ wait.pc = "raised" /\ wait.exc = "SerialTimeoutError" /\ wait.silent
    /\ Len(wait.lines) >= 1 /\ wait.quiet = TimeoutTicks
    /\ wait.clock = TimeoutTicks


\* The known prefix, with its colon, that occurs at position i of line: its
\* index in EXPECTED_PREFIXES, 0 if none does.
C21_OccursAt(line, i) ==
    LET here == {k \in 1..Len(EXPECTED_PREFIXES) :
                    /\ i + Len(EXPECTED_PREFIXES[k]) <= Len(line)
                    /\ SubSeq(line, i, i + Len(EXPECTED_PREFIXES[k]))
                           = Append(EXPECTED_PREFIXES[k], ":")}
    IN  IF here = {} THEN 0 ELSE CHOOSE k \in here : TRUE

\* C21: after the non-printable bytes are stripped, a line that holds an
\* occurrence "P:" of a known prefix anywhere is classified: its kind is the
\* prefix of the leftmost occurrence and its message the trimmed text after
\* that occurrence; a later prefix never overrides it.
C21_LeftmostPrefixWins ==
    (out.done /\ call.fn = "_parse_response_line") =>
        LET line == FilterPrintable(call.line)
            at == {i \in 1..Len(line) : C21_OccursAt(line, i) # 0}
        IN  at # {} =>
              LET i == CHOOSE i \in at : \A j \in at : i <= j
                  P == EXPECTED_PREFIXES[C21_OccursAt(line, i)]
              IN  out.val = [some |-> TRUE, type |-> P,
                             message |-> Strip(SubSeq(line, i + Len(P) + 1, Len(line)))]


\* C22: in the write/verify loop the zero-length chunk is sent when, and only
\* when, the data source is exhausted (every non-empty chunk of the file was
\* sent); it is sent once and no chunk is sent after it; and what the host
\* then waits for is the device's MAIN event: MAIN ends the wait, and the
\* transfer is not taken for complete before MAIN was received.
C22_TerminatorThenMain ==
    /\ pc = "send_term" =>
          (chunksLeft = 0 /\ xfer.sent = ReadsOf(xfer.size, xfer.buf))
    /\ xfer.term <= 1
    /\ xfer.term = 1 => pc \notin {"file_read", "send_term", "send_len", "send_data"}
    /\ (xfer.term = 1 /\ xfer.mainAfterTerm) => pc # "wait_term"
    /\ (pc = "fin" /\ xfer.term = 1 /\ result = "True") => xfer.mainAfterTerm


\* C23: against the device of the end-to-end scenario (INIT, an OK for every
\* chunk and for the terminator, then MAIN and END; no error, no failing
\* transport) a write of a file of file_size bytes with block size N ends
\* with success, having sent ceil(file_size / N) non-empty chunks and exactly
\* one zero-length terminator.
C23_EndToEndWrite ==
    (pc = "fin" /\ op = "write" /\ xfer.dev \in {"init", "serve", "main", "end"}) =>
        /\ result = "True"
        /\ xfer.sent = (xfer.size + xfer.buf - 1) \div xfer.buf
        /\ xfer.term = 1


\* C24: what the host sends for a chunk is the byte '#' (35), the payload
\* length as two bytes, most significant first, one checksum byte and the
\* payload, where the checksum byte is the XOR of the payload bytes; so a
\* receiver that takes the frame apart by this layout and recomputes the XOR
\* over the payload finds the checksum byte that was sent.
C24_ChunkFraming ==
    (out.done /\ call.fn = "send_chunk") =>
        LET n == Len(call.chunk)
        IN  /\ Len(out.val) = 4 + n
            /\ out.val[1] = 35
            /\ out.val[2] * 256 + out.val[3] = n
            /\ SubSeq(out.val, 5, 4 + n) = call.chunk
            /\ out.val[4] = XorFold(SubSeq(out.val, 5, 4 + n))


C26_Bit(n, i) == (n \div (2 ^ i)) % 2

\* C26: the flags of the command built by _setup_operation are the bitwise
\* OR of the chip record's flags (0 when the record has none) and the
\* operation flags: a bit is set in the command exactly when it is set in one
\* of the two operands.
C26_FlagsAreOr ==
    (call.fn = "_setup_operation" /\ out.done) =>
        /\ out.val.cmd = call.cmd
        /\ \A i \in 0..8 :
              C26_Bit(out.val.flags, i) = 1 <=>
                  \/ C26_Bit(GetFlags(call.eprom), i) = 1
                  \/ C26_Bit(call.operation_flags, i) = 1

\* The chip record carries CAN_ERASE, the operation VERBOSE and FORCE: the
\* command carries all three.
C26_Witness ==
    /\ call.fn = "_setup_operation" /\ out.done
    /\ GetFlags(call.eprom) = FLAG_CAN_ERASE
    /\ call.operation_flags = FLAG_VERBOSE + FLAG_FORCE
    /\ out.val.flags = FLAG_VERBOSE + FLAG_FORCE + FLAG_CAN_ERASE


\* The register values of a call fit their widths: MSB and LSB 8 bits, the
\* control register 8 bits, or 9 bits in firestarter mode.
C27_RegistersFit ==
    /\ call.msb \in 0..255 /\ call.lsb \in 0..255
    /\ call.ctrl_reg \in 0..(IF call.firestarter THEN 511 ELSE 255)

\* The address of a call lies within the chip's address range.
C27_AddressFits == call.address.value \in 0..(call.eprom.memory_size - 1)

\* The register half of C27 alone.
C27_RegistersValidated ==
    (call.fn = "dev_set_registers" /\ out.done /\ ~C27_RegistersFit)
        => ~out.val.connects

\* C27: dev_set_registers and dev_set_address_mode return failure before any
\* port is opened when a raw value does not fit its declared width: a register
\* value out of range, or an address outside the chip's address range, never
\* lets the operation go on to connect.
C27_ValidatedBeforeSend ==
    /\ C27_RegistersValidated
    /\ (call.fn = "dev_set_address_mode" /\ out.done /\ call.address.parses
        /\ ~C27_AddressFits) => ~out.val.connects


\* C28: when the process ends after an interruption that came while a serial
\* connection was open, during probing and handshake or during an operation,
\* the connection has been drained and closed: no port is open and none is left
\* to the finalizer.
C28_InterruptDisconnects == pc = "exited" => (conn = 0 /\ ~leaked)


\* The drain of a disconnect ends against a device that has fallen silent.
C29_SilentDrainEnds ==
    (wait.pc = "drain" /\ wait.silent) ~> (wait.pc = "closed")

\* C29: disconnect closes the port only after the drain has run out, and
\* every disconnect ends, whatever the device does: it returns with the port
\* closed, or having done nothing on a communicator that was not connected, or
\* with the error of the port.
C29_DisconnectTerminates ==
    /\ [](wait.pc = "closed" => wait.clock >= TimeoutTicks)
    /\ (wait.pc \in {"disconnect", "drain"}) ~>
          (wait.pc \in {"disconnected", "closed", "raised"})


\* Every payload of a write or verify follows an OK event of its own: the one
\* that answers its length.
C30_PayloadsPaced == xfer.sent <= xfer.oks

\* C30: write and verify are paced by the device: the host sends a chunk, the
\* zero-length terminator included, only in response to an OK event of the
\* transfer, so the chunks sent never outnumber the OK events received since
\* the transfer started (the OK events of the MAIN phase are among these).
C30_PullBased ==
    (op \in {"write", "verify"}) => xfer.sent + xfer.term <= xfer.oks


\* C31: a WARN event in the read loop is only logged: after it the loop waits
\* for the next event, with the offset and the bytes handed over as they were,
\* no acknowledgement sent for it and the operation not failed.
C31_WarnOnlyLogged ==
    (op \in {"read", "dev_read"} /\ xfer.ev = "WARN") =>
        /\ pc = "read_loop" /\ result # "False"
        /\ written = bytesRead /\ acks = 1 + xfer.blocks


\* The last line the wait received is an INFO or DEBUG line.
C32_InfoReceived ==
    /\ wait.lines # <<>>
    /\ ParseResponseLine(wait.lines[Len(wait.lines)]).type \in NON_RESPONSE_PREFIXES

\* A handshake wait against a device that has fallen silent ends.
C32_SilentAckEnds ==
    (wait.ack /\ wait.silent) ~> (wait.pc \in {"acked", "nacked", "raised"})

\* C32: when the device at some time stops sending INFO and DEBUG lines, the
\* handshake wait ends, with success, failure, timeout or the error of the
\* port, whatever else the device sends.
C32_HandshakeWaitEnds ==
    (<>[]~C32_InfoReceived) =>
        ((wait.ack /\ wait.pc = "call") ~>
            (wait.pc \in {"acked", "nacked", "raised"}))


\* C33: the JSON command is sent at most once on a connection: when it is
\* sent, the port at hand was just opened for this candidate, the command was
\* not sent on it before and nothing else was sent on it; and once sent, the
\* command counts as sent until another port is opened or the operation is
\* over.
C33_CommandOncePerConnection ==
    /\ [](pc = "probe_send" =>
             (~cmdSent /\ acks = 0 /\ conn # 0 /\ conn = cands[ci] /\ probeComm))
    /\ [][/\ (cmdSent' /\ ~cmdSent) => pc = "probe_send"
          /\ (cmdSent /\ ~cmdSent') => pc \in {"probe_open", "done"}]_vars

\* The command is about to be sent on the second candidate port, the first
\* having been sent it.
C33_Witness ==
    /\ pc = "probe_send" /\ ci = 2 /\ Len(probed) = 2 /\ ~cmdSent /\ conn = cands[2]


\* C34: within an operation the progress never goes back and advances only for
\* a block that was transferred. In a read the bytes counted grow only at the
\* acknowledgement of a block that was read without an error and handed over,
\* by the length of that block's payload; in a write or verify the chunks
\* counted grow only by the one chunk whose payload was sent and answered with
\* OK. The count starts anew only with the next operation.
C34_ProgressMonotone ==
    [][/\ bytesRead' # bytesRead =>
             \/ /\ pc = "read_ack" /\ blk.read /\ blk.out.raise = "none"
                /\ Len(blk.out.data) > 0
                /\ bytesRead' = bytesRead + Len(blk.out.data)
                /\ bytesRead' = written
             \/ pc = "done" /\ bytesRead' = 0
       /\ (chunksLeft' # chunksLeft /\ pc \notin {"file_check", "done"}) =>
             /\ pc = "wait_data" /\ chunksLeft' = chunksLeft - 1
             /\ xfer'.oks = xfer.oks + 1
             /\ xfer.sent = ReadsOf(xfer.size, xfer.buf) - chunksLeft + 1]_vars

\* Progress was reported twice in a read: two blocks of one byte each.
C34_Witness ==
    op = "read" /\ pc = "read_loop" /\ bytesRead = 2 /\ xfer.blocks = 2


C36_AckIsReply ==
    (pc = "probe_gate" /\ hsEvent.kind = "OK") => hsEvent.origin = "reply"


\* C37: the events get_response can return for one line of the device are
\* built from the complete line: whether the line arrives whole or in two
\* pieces, a significant line gives exactly one significant event, the one of
\* the whole line with its whole message, and no other line gives any.
C37_WholeLineOneEvent ==
    (call.fn = "read_line_bytes" /\ out.done) =>
        LET whole == ParseResponseLine(call.line)
            events == SelectSeq(out.val, C17_Significant)
        IN  events = IF C17_Significant(whole) THEN <<whole>> ELSE <<>>

\* A line that arrives whole gives the one event of the line.
C37_WholeLinesParsed ==
    (call.fn = "read_line_bytes" /\ out.done /\ call.cut = 0) =>
        out.val = <<ParseResponseLine(call.line)>>


\* A read never hands over more bytes than the range asked for.
C38_NoMoreThanRequested == (op = "read") => written <= total

\* C38: read_eprom reports success only when the bytes written to the output
\* are as many as the range asked for, and never writes more than that.
C38_SuccessMeansWholeRange ==
    /\ (op = "read" /\ pc = "done" /\ result = "True") => written = total
    /\ C38_NoMoreThanRequested


\* C39: the persisted "port" value changes only at the end of a probe that
\* returns a session: the reply was an OK that passed the version gate (or the
\* command is the firmware-version query), the value stored is the port of
\* that connection, and the probe returns without an exception. A probe that
\* ends in any other way leaves the value as it was.
C39_PortPersistedOnlyOnSuccess ==
    [][cfgPort' # cfgPort =>
          LET msg == hsEvent.msg
          IN  /\ pc = "probe_gate" /\ pc' = "find_ret" /\ exc' = "none"
              /\ hsEvent.kind = "OK" /\ conn # 0 /\ conn = cands[ci]
              /\ cfgPort' = conn
              /\ \/ CommandOf(op) = COMMAND_FW_VERSION
                 \/ /\ HasFW(msg) /\ FwToken(msg) # <<>>
                    /\ IsVersionSufficient(FwToken(msg), <<"2", ".", "0", ".", "0">>)]_vars

\* A probe of the persisted port ended with the device's ERROR reply and the
\* value is still that port.
C39_Witness ==
    /\ pc = "probe_next" /\ hsEvent.kind = "ERROR" /\ ci = 1
    /\ cfgPort # 0 /\ cfgPort = cands[1]


\* C40: the identity string is set only on a communicator that is connected
\* and whose handshake ended with OK, and it is that OK's message; when
\* disconnect is over, returning or raising, the communicator is not connected
\* and the identity is cleared; and disconnect on a communicator that is not
\* connected changes nothing, calls no close() and raises nothing.
C40_SessionStateConsistent ==
    /\ [](info # NoInfo =>
             (conn # 0 /\ hsEvent.kind = "OK" /\ info = hsEvent.msg))
    /\ [][(pc = "disc" /\ pc' # "disc") =>
             /\ conn' = 0 /\ info' = NoInfo
             /\ conn = 0 => UNCHANGED <<connVars, exc, failure, protoVars>>]_vars

\* disconnect is called on a communicator that is not connected any more.
C40_Witness == pc = "disc" /\ conn = 0 /\ (operComm \/ localComm \/ probeComm)

====
